---- MODULE Spec2Model ----
(***************************************************************************)
(* Verification model of the car-lease analysis repository                 *)
(* (Revanth-157/InfosysSpringBoardInternship).                             *)
(*                                                                         *)
(* Components modelled, each with its own specification over the shared    *)
(* variables (the variables of the other components stay idle):            *)
(*   SpecFair    contract_fairness_analysis.analyze_contract_fairness      *)
(*   SpecJob     enhanced_api_server.process_lease_pdf and its background  *)
(*               thread, with analysis_status polling                      *)
(*   SpecRag     the chunk / search / context / LLM pipeline of            *)
(*               Tokenization.py and streamlit_app.get_negotiation_advice  *)
(*   SpecChunk   chunk_text for arbitrary window sizes                     *)
(*   SpecExtract vehicle_enrichment.extract_full_lease_fields and          *)
(*               extract_vehicle_info with the NHTSA collaborators         *)
(*   SpecLlm     extract_full_lease_fields with use_llm=True               *)
(***************************************************************************)
EXTENDS Integers, Sequences, FiniteSets, TLC

VARIABLES
    \* ---- fairness scorer ----
    ftext,          \* what the scorer's regexes capture from the text
    vehicle_info,   \* the vehicle_info argument (or what the lookup returns)
    fairness,       \* the returned FairnessAssessment, NULL before the call
    \* ---- job store and background thread ----
    JOBS,           \* job id -> [status, result, extracted_contract]
    CHATS,          \* job id -> chat messages
    leases,         \* rows of the leases table
    bg,             \* job id -> position of the job's background thread
    poll,           \* the analysis_status request in progress
    polled,         \* the last analysis_status response
    client,         \* scripts/upload_and_poll.py: position, job polled, what it printed
    users,          \* rows of the users table; a row's position is its id
    session,        \* browser -> [user_id of its Flask session, token it holds]
    response,       \* the last response to a register/login/leases request
    chat,           \* the last chat_for_job request and its answer
    \* ---- retrieval pipeline ----
    variant,        \* "Tokenization" or "streamlit"
    documents,      \* the loaded texts (sequences of tokens)
    chunk_size,     \* the window size chunk_text is called with
    chunks,         \* list of chunk strings
    dist,           \* chunk position (1-based) -> distance to the query
    indices,        \* what index.search returned (0-based, -1 = padding)
    context_chunks, \* chunks accepted into the context so far
    word_count,     \* running word count of the context
    pos,            \* number of entries of indices the context loop has taken
    context,        \* the joined context string
    rag,            \* position of the pipeline
    llm_prompts,    \* the context of every prompt sent to the LLM
    \* ---- VIN / field extraction ----
    text,           \* the lease text seen by the extractor
    use_nhtsa,      \* the use_nhtsa argument
    nhtsa,          \* how the two NHTSA endpoints answer
    use_llm,        \* the use_llm argument
    llm,            \* what _call_llm returned (resp_text)
    out,            \* return value of extract_full_lease_fields
    vinfo,          \* return value of extract_vehicle_info
    advice,         \* return value of get_negotiation_advice
    request_args,   \* query parameters of the process_lease_pdf request
    nhtsa_calls     \* the NHTSA requests sent so far: [by, endpoint]

fairVars == <<ftext, vehicle_info, fairness>>
webVars == <<users, session, response, chat>>
jobVars == <<JOBS, CHATS, leases, bg, poll, polled, client, webVars>>
ragVars == <<variant, documents, chunk_size, chunks, dist, indices,
             context_chunks, word_count, pos, context, rag, llm_prompts>>
extVars == <<text, use_nhtsa, nhtsa, use_llm, llm, out, vinfo, advice,
             request_args, nhtsa_calls>>
vars == <<fairVars, jobVars, ragVars, extVars>>

\* Python's None for scalar values, and "not called yet" for results.
NULL == "None"

Max(a, b) == IF a >= b THEN a ELSE b
Min(a, b) == IF a <= b THEN a ELSE b

(***************************************************************************)
(* Idle values: a specification leaves the other components' variables at  *)
(* these values for the whole run.                                         *)
(***************************************************************************)
NotReturned == [returned |-> FALSE]

FairIdle == ftext = NULL /\ vehicle_info = NULL /\ fairness = NotReturned
JobIdle ==
    /\ JOBS = <<>> /\ CHATS = <<>> /\ leases = <<>> /\ bg = <<>>
    /\ poll = NULL /\ polled = NULL /\ client = NULL
    /\ users = <<>> /\ session = <<>> /\ response = NULL /\ chat = NULL
RagIdle ==
    /\ variant = NULL /\ documents = <<>> /\ chunk_size = 0 /\ chunks = <<>>
    /\ dist = <<>> /\ indices = <<>> /\ context_chunks = <<>>
    /\ word_count = 0 /\ pos = 0 /\ context = <<>> /\ rag = NULL
    /\ llm_prompts = <<>>
ExtIdle ==
    /\ text = NULL /\ use_nhtsa = FALSE /\ nhtsa = NULL
    /\ use_llm = FALSE /\ llm = <<>>
    /\ out = NotReturned /\ vinfo = NotReturned /\ advice = NotReturned
    /\ request_args = NULL /\ nhtsa_calls = <<>>

(***************************************************************************)
(*                         FAIRNESS SCORER                                 *)
(* contract_fairness_analysis.py.  The text is represented by what each of *)
(* the scorer's regular expressions captures from it (group 1 of the first *)
(* match): NoMatch, Unparsable (a capture float() rejects, such as "," or  *)
(* "1.2.3"), or the number captured.  Money is in whole dollars, the       *)
(* excess-mileage rate in cents per mile, the accumulated score in tenths. *)
(***************************************************************************)
NoMatch == -1
Unparsable == -2

\* _safe_float: None for None and for a string float() rejects.
safe_float(value) == IF value = NoMatch \/ value = Unparsable THEN NoMatch ELSE value

\* Python's `a or b` on two _find results: a capture is a non-empty string,
\* so the first pattern wins whenever it matches at all.
FirstFound(a, b) == IF a # NoMatch THEN a ELSE b

BASE_SCORE == 70
HIGH_MONTHLY == 2000
DEPOSIT_FACTOR == 3
LOW_MILEAGE == 10000
HIGH_EXCESS_RATE == 25
RECALL_STEP == 3
RECALL_CAP == 20
RECALL_HIGH == 5
RECALL_DETAILS == 5

RedFlag(clause, severity) == [clause |-> clause, severity |-> severity]

\* Python 3 round(): to the nearest integer, ties to the even one.
\* t is the score in tenths.
RoundTenths(t) ==
    LET q == t \div 10
        r == t % 10
    IN  IF r < 5 THEN q
        ELSE IF r > 5 THEN q + 1
        ELSE IF q % 2 = 0 THEN q ELSE q + 1

NormalizeNoFloor(t) == Min(10, RoundTenths(t))

\* final = max(1, min(10, round(score)))
Normalize(t) == Max(1, Min(10, RoundTenths(t)))

\* One step of the rule cascade: acc is [score, red, green].
Red(acc, clause, severity, penalty) ==
    [acc EXCEPT !.score = @ - penalty, !.red = Append(@, RedFlag(clause, severity))]
Green(acc, benefit, bonus) ==
    [acc EXCEPT !.score = @ + bonus, !.green = Append(@, benefit)]

MonthlyRules(acc, monthly, deposit) ==
    IF monthly = NoMatch
    THEN Red(acc, "Monthly payment missing", "high", 20)
    ELSE LET a1 == IF deposit # NoMatch /\ monthly > 0 /\ deposit > monthly * DEPOSIT_FACTOR
                   THEN Red(acc, "High security deposit", "medium", 10)
                   ELSE acc
         IN  IF monthly > HIGH_MONTHLY
             THEN Red(a1, "High monthly payment", "medium", 10)
             ELSE Green(a1, "Affordable monthly payment", 0)

\* `monthly and late_fee > monthly * 0.5`: a monthly of None or 0 is falsy.
LateFeeRules(acc, monthly, late_fee) ==
    IF late_fee = NoMatch THEN acc
    ELSE IF monthly # NoMatch /\ monthly # 0 /\ 2 * late_fee > monthly
         THEN Red(acc, "High late fee", "high", 20)
         ELSE Green(acc, "Reasonable late fee", 0)

NoMileageRule(acc, mileage_allowance) == acc

MileageRules(acc, mileage_allowance) ==
    IF mileage_allowance # NoMatch
    THEN IF mileage_allowance < LOW_MILEAGE
         THEN Red(acc, "Low mileage allowance", "medium", 10)
         ELSE Green(acc, "Generous mileage allowance", 0)
    ELSE Red(acc, "Mileage allowance missing", "medium", 10)

ExcessRules(acc, excess_rate) ==
    IF excess_rate = NoMatch THEN acc
    ELSE IF excess_rate > HIGH_EXCESS_RATE
         THEN Red(acc, "High excess mileage rate", "medium", 10)
         ELSE Green(acc, "Reasonable excess mileage rate", 0)

ClauseRulesGapPenalty(acc, early_term, gap_insurance) ==
    LET a1 == IF early_term THEN Red(acc, "Early termination clause", "medium", 10) ELSE acc
    IN  IF gap_insurance THEN Green(a1, "Gap insurance included", -5) ELSE a1

ClauseRules(acc, early_term, gap_insurance) ==
    LET a1 == IF early_term THEN Red(acc, "Early termination clause", "medium", 10) ELSE acc
    IN  IF gap_insurance THEN Green(a1, "Gap insurance included", 5) ELSE a1

NoRecallDetails(red, n) == red
RECURSIVE RecallDetails(_, _)
RecallDetails(red, n) ==
    IF n = 0 THEN red
    ELSE Append(RecallDetails(red, n - 1), RedFlag("Recall detail", "low"))

\* recalls = vehicle_info.get('recalls'); an empty or missing list is falsy.
RecallRules(acc, recalls) ==
    LET n == Len(recalls)
    IN  IF n > 0
        THEN LET a1 == Red(acc, "Vehicle recalls",
                           IF n < RECALL_HIGH THEN "medium" ELSE "high",
                           Min(RECALL_CAP, n * RECALL_STEP))
             IN  [a1 EXCEPT !.red = RecallDetails(@, Min(n, RECALL_DETAILS))]
        ELSE Green(acc, "No recalls found", 0)

\* analyze_contract_fairness(text, vehicle_info).  `looked_up` is what
\* extract_vehicle_info(text) does when the argument is missing or empty: it
\* returns a dict or raises.  The result also carries the accumulator before
\* the recall block and the vehicle info used.
analyze_contract_fairness(t, vi, looked_up) ==
    LET monthly == safe_float(FirstFound(t.MonthlyPaymentLabel, t.MonthlyLeasePaymentOf))
        deposit == safe_float(t.SecurityDeposit)
        late_fee == safe_float(t.LateFee)
        mileage_allowance == FirstFound(t.MilesPerYear, t.MaximumOfMiles)
        excess_rate == safe_float(FirstFound(t.ExcessMileageDollar, t.ChargedAtRate))
        a0 == [score |-> BASE_SCORE, red |-> <<>>, green |-> <<>>]
        a1 == MonthlyRules(a0, monthly, deposit)
        a2 == LateFeeRules(a1, monthly, late_fee)
        a3 == MileageRules(a2, mileage_allowance)
        a4 == ExcessRules(a3, excess_rate)
        a5 == ClauseRules(a4, t.EarlyTermination, t.GapInsurance)
        info == IF vi.truthy THEN vi ELSE looked_up
        a6 == IF info.raised THEN a5          \* except Exception: pass
              ELSE RecallRules(a5, info.recalls)
    IN  [returned |-> TRUE,
         fairness_score |-> Normalize(a6.score),
         red_flags |-> a6.red,
         green_flags |-> a6.green,
         score |-> a6.score,
         rules |-> a5,
         info |-> info]

MaxRecalls == 7

MonthlyLabelCaptures == {NoMatch, Unparsable, 0, 350, 2001}
MonthlyLeaseCaptures == {NoMatch, 350}
DepositCaptures == {NoMatch, 1050, 1051}
LateFeeCaptures == {NoMatch, 175, 176}
MileageCaptures == {NoMatch, 9999, 10000}
ExcessDollarCaptures == {NoMatch, Unparsable, 25, 26}
ChargedAtCaptures == {NoMatch, 20}

\* r"maximum of\s*(\d{1,6})\s*miles per year" can only match where
\* r"(\d{1,6})\s*miles\s*per\s*year" matches too.
FairTexts ==
    { t \in [MonthlyPaymentLabel : MonthlyLabelCaptures,
             MonthlyLeasePaymentOf : MonthlyLeaseCaptures,
             SecurityDeposit : DepositCaptures,
             LateFee : LateFeeCaptures,
             MilesPerYear : MileageCaptures,
             MaximumOfMiles : MileageCaptures,
             ExcessMileageDollar : ExcessDollarCaptures,
             ChargedAtRate : ChargedAtCaptures,
             EarlyTermination : BOOLEAN,
             GapInsurance : BOOLEAN,
             Vin : BOOLEAN] :
        t.MaximumOfMiles \in {NoMatch, t.MilesPerYear} }

Recall == [component |-> "AIR BAGS"]
RecallLists == { [i \in 1..n |-> Recall] : n \in 0..MaxRecalls }
VehicleInfos == { [truthy |-> TRUE, recalls |-> r, raised |-> FALSE] : r \in RecallLists }
NoVehicleInfo == [truthy |-> FALSE, recalls |-> <<>>, raised |-> FALSE]
LookupRaised == [truthy |-> FALSE, recalls |-> <<>>, raised |-> TRUE]

FairInit ==
    /\ ftext \in FairTexts
    /\ vehicle_info \in VehicleInfos \cup {NoVehicleInfo}
    /\ fairness = NotReturned
    /\ JobIdle /\ RagIdle /\ ExtIdle

\* A call of analyze_contract_fairness.  Without a vehicle_info argument the
\* scorer looks the vehicle up itself; the lookup's answer is an input, and
\* it asks NHTSA only for a text that holds a VIN (Vin).
AnalyzeFairness ==
    /\ ~fairness.returned
    /\ \E looked_up \in VehicleInfos \cup {NoVehicleInfo, LookupRaised} :
         /\ ((vehicle_info.truthy \/ ~ftext.Vin) => looked_up = NoVehicleInfo)
         /\ fairness' = analyze_contract_fairness(ftext, vehicle_info, looked_up)
    /\ UNCHANGED <<ftext, vehicle_info, jobVars, ragVars, extVars>>

FairNext == AnalyzeFairness

SpecFair == FairInit /\ [][FairNext]_vars

\* C1: for every input text and any recall list, analyze_contract_fairness
\* returns a fairness_score that is an integer with 1 <= fairness_score <= 10.
C1_ScoreInRange ==
    fairness.returned => fairness.fairness_score \in 1..10

\* C1 witness: a call whose accumulated score is below 1, so that the lower
\* clamp is what puts the score in range.
C1_Witness ==
    fairness.returned /\ fairness.score < 5 /\ fairness.fairness_score = 1

(***************************************************************************)
(* The rule table, each row on its own.                                    *)
(***************************************************************************)
EmptyText ==
    [MonthlyPaymentLabel |-> NoMatch, MonthlyLeasePaymentOf |-> NoMatch,
     SecurityDeposit |-> NoMatch, LateFee |-> NoMatch, MilesPerYear |-> NoMatch,
     MaximumOfMiles |-> NoMatch, ExcessMileageDollar |-> NoMatch, ChargedAtRate |-> NoMatch,
     EarlyTermination |-> FALSE, GapInsurance |-> FALSE, Vin |-> FALSE]

\* C13: for the empty text the score is 4, from the baseline 7 less 2 for
\* the missing monthly payment (high) and less 1 for the missing mileage
\* allowance (medium), and these are the only red flags.
C13_EmptyTextScoresFour ==
    (fairness.returned /\ ftext = EmptyText /\ ~vehicle_info.truthy) =>
        /\ fairness.fairness_score = 4
        /\ fairness.score = BASE_SCORE - 20 - 10
        /\ fairness.red_flags = <<RedFlag("Monthly payment missing", "high"),
                                  RedFlag("Mileage allowance missing", "medium")>>

C13_Witness ==
    fairness.returned /\ ftext = EmptyText /\ ~vehicle_info.truthy /\ fairness.fairness_score = 4

\* The scorer's inputs for the text.
Inputs ==
    [monthly |-> safe_float(FirstFound(ftext.MonthlyPaymentLabel, ftext.MonthlyLeasePaymentOf)),
     deposit |-> safe_float(ftext.SecurityDeposit),
     late_fee |-> safe_float(ftext.LateFee),
     mileage |-> FirstFound(ftext.MilesPerYear, ftext.MaximumOfMiles),
     excess |-> safe_float(FirstFound(ftext.ExcessMileageDollar, ftext.ChargedAtRate)),
     early |-> ftext.EarlyTermination,
     gap |-> ftext.GapInsurance]

\* A row of the rule table: its condition holds (red flag, penalty in
\* tenths), or it has an "else green flag" and the value it is about is
\* there, or it does nothing.  A comparison with a missing value is false.
Row(present, cond, clause, severity, penalty, benefit) ==
    IF cond THEN [red |-> <<RedFlag(clause, severity)>>, green |-> <<>>, delta |-> 0 - penalty]
    ELSE IF present /\ benefit # "" THEN [red |-> <<>>, green |-> <<benefit>>, delta |-> 0]
    ELSE [red |-> <<>>, green |-> <<>>, delta |-> 0]

RuleTable(in) ==
    <<Row(FALSE, in.monthly = NoMatch, "Monthly payment missing", "high", 20, ""),
      Row(FALSE, in.deposit # NoMatch /\ in.monthly # NoMatch /\ in.deposit > 3 * in.monthly,
          "High security deposit", "medium", 10, ""),
      Row(in.monthly # NoMatch, in.monthly # NoMatch /\ in.monthly > 2000,
          "High monthly payment", "medium", 10, "Affordable monthly payment"),
      Row(in.late_fee # NoMatch, in.late_fee # NoMatch /\ in.monthly # NoMatch /\ 2 * in.late_fee > in.monthly,
          "High late fee", "high", 20, "Reasonable late fee"),
      Row(in.mileage # NoMatch, in.mileage # NoMatch /\ in.mileage < 10000,
          "Low mileage allowance", "medium", 10, "Generous mileage allowance"),
      Row(FALSE, in.mileage = NoMatch, "Mileage allowance missing", "medium", 10, ""),
      Row(in.excess # NoMatch, in.excess # NoMatch /\ in.excess > 25,
          "High excess mileage rate", "medium", 10, "Reasonable excess mileage rate"),
      Row(FALSE, in.early, "Early termination clause", "medium", 10, ""),
      [red |-> <<>>, green |-> IF in.gap THEN <<"Gap insurance included">> ELSE <<>>,
       delta |-> IF in.gap THEN 5 ELSE 0],
      [red |-> <<>>, green |-> <<"No recalls found">>, delta |-> 0]>>

RECURSIVE TableTotal(_, _)
TableTotal(rows, n) ==
    IF n = 0 THEN [red |-> <<>>, green |-> <<>>, score |-> 70]
    ELSE LET before == TableTotal(rows, n - 1)
         IN  [red |-> before.red \o rows[n].red, green |-> before.green \o rows[n].green,
              score |-> before.score + rows[n].delta]

NoRecalls == ~fairness.info.raised /\ Len(fairness.info.recalls) = 0

\* C15: with no recalls, red flags, green flags and accumulated score are
\* those of the rule table applied row by row to a baseline of 7.0, and the
\* final score is the accumulated value clamped to [1,10] and rounded.
C15_RuleTable ==
    (fairness.returned /\ NoRecalls) =>
        LET table == TableTotal(RuleTable(Inputs), Len(RuleTable(Inputs)))
        IN  /\ fairness.red_flags = table.red
            /\ fairness.green_flags = table.green
            /\ fairness.score = table.score
            /\ fairness.fairness_score = RoundTenths(Max(10, Min(100, table.score)))

C15_RuleTablePositiveMonthly ==
    (fairness.returned /\ NoRecalls /\ Inputs.monthly # 0) =>
        LET table == TableTotal(RuleTable(Inputs), Len(RuleTable(Inputs)))
        IN  /\ fairness.red_flags = table.red
            /\ fairness.green_flags = table.green
            /\ fairness.score = table.score
            /\ fairness.fairness_score = RoundTenths(Max(10, Min(100, table.score)))

\* The score of the same call with other captures, or another recall list.
ScoreOf(t, info) == analyze_contract_fairness(t, info, info)

\* The texts that differ from the scored one in one capture other than the
\* gap-insurance mention.
CaptureSets ==
    [MonthlyPaymentLabel |-> MonthlyLabelCaptures,
     MonthlyLeasePaymentOf |-> MonthlyLeaseCaptures,
     SecurityDeposit |-> DepositCaptures,
     LateFee |-> LateFeeCaptures,
     MilesPerYear |-> MileageCaptures,
     MaximumOfMiles |-> MileageCaptures,
     ExcessMileageDollar |-> ExcessDollarCaptures,
     ChargedAtRate |-> ChargedAtCaptures,
     EarlyTermination |-> BOOLEAN]
OneCaptureChanged ==
    { t \in UNION { { [ftext EXCEPT ![f] = v] : v \in CaptureSets[f] } :
                    f \in DOMAIN CaptureSets } :
        t # ftext /\ t.MaximumOfMiles \in {NoMatch, t.MilesPerYear} }

\* b has the red flags of a and one more.
OneMoreRedFlag(a, b) ==
    \E i \in DOMAIN b :
        a = [k \in 1..(Len(b) - 1) |-> IF k < i THEN b[k] ELSE b[k + 1]]

\* C29: the final score is monotone in its rules: an input that triggers
\* one more penalty rule, or has more recalls, never scores higher, and an
\* input that also mentions gap insurance never scores lower.
C29_ScoreMonotone ==
    fairness.returned =>
        /\ \A t \in OneCaptureChanged :
             LET other == ScoreOf(t, fairness.info)
             IN  OneMoreRedFlag(fairness.rules.red, other.rules.red)
                    => other.fairness_score <= fairness.fairness_score
        /\ ~fairness.info.raised =>
             ScoreOf(ftext, [fairness.info EXCEPT !.recalls = Append(@, Recall)]).fairness_score
                <= fairness.fairness_score
        /\ ScoreOf([ftext EXCEPT !.GapInsurance = TRUE], fairness.info).fairness_score
              >= fairness.fairness_score

\* C29 witness: a score that stands on a rounding tie (x.5) is scored, one
\* more penalty rule lowers the final score, and the gap-insurance mention
\* alone does not raise it.
C29_Witness ==
    /\ fairness.returned /\ ~ftext.GapInsurance
    /\ fairness.score % 10 = 5
    /\ \E t \in OneCaptureChanged :
         /\ OneMoreRedFlag(fairness.rules.red, ScoreOf(t, fairness.info).rules.red)
         /\ ScoreOf(t, fairness.info).fairness_score < fairness.fairness_score
    /\ ScoreOf([ftext EXCEPT !.GapInsurance = TRUE], fairness.info).fairness_score
          = fairness.fairness_score

(***************************************************************************)
(*                    JOB STORE AND BACKGROUND THREAD                      *)
(* enhanced_api_server.py: process_lease_pdf creates the job and starts    *)
(* _background_work in a thread; analysis_status reads the job.  Each      *)
(* statement that touches JOBS is one step, so requests interleave with    *)
(* the thread between any two of them.  A dict is represented by its key   *)
(* set where only the keys matter.                                         *)
(***************************************************************************)
MaxJobs == 2
MaxUsers == 1

JobIds == 1..MaxJobs
NoUser == 0
UserIds == 1..MaxUsers

\* The keys extract_full_lease_fields always sets (heuristic pass).
HeuristicKeys ==
    {"lessor_name", "lessor_address", "lessor_phone", "lessor_email",
     "lessee_name", "lessee_address", "lessee_phone", "lessee_email",
     "drivers_license", "make", "model", "year", "color", "license_plate",
     "odometer", "vins", "vin", "monthly_payment", "security_deposit",
     "late_fee", "mileage_allowance_per_year", "excess_mileage_rate",
     "lease_term_months", "term_start", "term_end", "insurance_required",
     "maintenance_responsibility", "early_termination_clause", "governing_law"}

ResultNone == [isNone |-> TRUE, keys |-> {}]
ResultAnalysis ==
    [isNone |-> FALSE,
     keys |-> {"negotiation_advice", "fairness_analysis", "full_extraction"}]
ResultError == [isNone |-> FALSE, keys |-> {"error"}]

\* lines 620-626: the prompt that carries json.dumps(full_extraction) and
\* json.dumps(datapoints)
SystemPrompt == [instructions |-> "negotiation assistant",
                 data |-> {"full_extraction", "datapoints"}]

InitialContract == {"text", "full_extraction", "datapoints", "vehicle_info"}
MergedContract == HeuristicKeys \cup {"negotiation_advice", "fairness_analysis"}

LeasePayload ==
    {"lease_id", "file_name", "extracted_text", "datapoints", "vehicle_info",
     "full_extraction", "job_id", "uploaded_at"}

NoPoll == [pc |-> "idle", job |-> 0, status |-> NULL]
NoResponse == [code |-> 0, status |-> NULL, has_result |-> FALSE, result |-> ResultNone]
\* scripts/upload_and_poll.py before the upload; `elapsed` counts the time
\* since the polling started, in units of the 2 s sleep of line 67.
NoClient == [pc |-> "upload", job |-> 0, elapsed |-> 0, said |-> NULL, printed |-> ResultNone]
\* --timeout (120 s by default) in those units, scaled down
PollTimeout == 2
\* the longest a status request takes (timeout=20), scaled down likewise
MaxRequestTime == 1

JobInit ==
    /\ JOBS = <<>> /\ CHATS = <<>> /\ leases = <<>> /\ bg = <<>>
    /\ poll = NoPoll /\ polled = NoResponse /\ client = NoClient
    /\ users = <<>> /\ session = <<>> /\ response = NULL /\ chat = NULL
    /\ FairIdle /\ RagIdle /\ ExtIdle

\* process_lease_pdf lines 525-617, once the text is extracted: the job is
\* created pending, the lease row is saved, the thread is started and the
\* chat context is created; uuid4 gives a fresh id.  A save that fails inside
\* the inner try is rolled back and only logged ("caught").  SessionLocal()
\* on line 551, rollback() on line 572 and close() on line 575 stand outside
\* it: what they raise reaches the handler's outer except, which answers 500
\* with the job stored and no thread started ("escaped": no row was saved,
\* "saved_escaped": close() raised after the commit).
SaveOutcomes == {"saved", "caught", "escaped", "saved_escaped"}
Escaped(outcome) == outcome \in {"escaped", "saved_escaped"}

StartJob(user, outcome) ==
    LET job_id == Len(JOBS) + 1
    IN  /\ job_id \in JobIds
        /\ JOBS' = Append(JOBS, [status |-> "pending", result |-> ResultNone,
                                 extracted_contract |-> InitialContract])
        /\ leases' = IF outcome \in {"saved", "saved_escaped"}
                     THEN Append(leases, [job_id |-> job_id, user_id |-> user,
                                          extracted_json |-> LeasePayload])
                     ELSE leases
        /\ bg' = Append(bg, IF Escaped(outcome) THEN "not_started" ELSE "compute")
        /\ CHATS' = IF Escaped(outcome) THEN CHATS
                    ELSE (job_id :> <<[role |-> "system", content |-> SystemPrompt]>>) @@ CHATS

\* A process_lease_pdf request of any client but the polling script.
ProcessLeasePdf ==
    \E user \in UserIds \cup {NoUser}, outcome \in SaveOutcomes :
      /\ StartJob(user, outcome)
      /\ UNCHANGED <<poll, polled, client, webVars, fairVars, ragVars, extVars>>

\* _background_work lines 578-582: negotiation, fairness and merged are locals.
BgComputeAt(j) ==
    /\ bg[j] = "compute"
    /\ bg' = [bg EXCEPT ![j] = "write_result"]
    /\ UNCHANGED <<JOBS, CHATS, leases, poll, polled, client, webVars, fairVars, ragVars, extVars>>

\* line 583
BgWriteResultAt(j) ==
    /\ bg[j] = "write_result"
    /\ JOBS' = [JOBS EXCEPT ![j].result = ResultAnalysis]
    /\ bg' = [bg EXCEPT ![j] = "write_contract"]
    /\ UNCHANGED <<CHATS, leases, poll, polled, client, webVars, fairVars, ragVars, extVars>>

\* line 588
BgWriteContractAt(j) ==
    /\ bg[j] = "write_contract"
    /\ JOBS' = [JOBS EXCEPT ![j].extracted_contract = MergedContract]
    /\ bg' = [bg EXCEPT ![j] = "write_status"]
    /\ UNCHANGED <<CHATS, leases, poll, polled, client, webVars, fairVars, ragVars, extVars>>

\* line 589
BgWriteStatusAt(j) ==
    /\ bg[j] = "write_status"
    /\ JOBS' = [JOBS EXCEPT ![j].status = "done"]
    /\ bg' = [bg EXCEPT ![j] = "db_update"]
    /\ UNCHANGED <<CHATS, leases, poll, polled, client, webVars, fairVars, ragVars, extVars>>

\* The lease rows with the analysis keys added to the row of job j (if any).
UpdateLease(rows, j) ==
    [i \in 1..Len(rows) |->
        IF rows[i].job_id = j
        THEN [rows[i] EXCEPT !.extracted_json =
                 @ \cup {"negotiation_advice", "fairness_analysis"}]
        ELSE rows[i]]

\* lines 592-610: the update of the lease row.  The inner try catches what the
\* query and the commit raise ("caught": rolled back, nothing stored); the
\* calls outside it - SessionLocal() on line 592, rollback() on line 607,
\* close() on line 610 - are covered only by the outer except of line 611
\* ("escaped").
BgDbUpdateAt(j) ==
    /\ bg[j] = "db_update"
    /\ \E outcome \in {"committed", "caught", "escaped"} :
         /\ leases' = IF outcome = "committed" THEN UpdateLease(leases, j) ELSE leases
         /\ bg' = [bg EXCEPT ![j] = IF outcome = "escaped" THEN "except_result"
                                    ELSE "finished"]
    /\ UNCHANGED <<JOBS, CHATS, poll, polled, client, webVars, fairVars, ragVars, extVars>>

\* line 612
BgExceptResultAt(j) ==
    /\ bg[j] = "except_result"
    /\ JOBS' = [JOBS EXCEPT ![j].result = ResultError]
    /\ bg' = [bg EXCEPT ![j] = "except_status"]
    /\ UNCHANGED <<CHATS, leases, poll, polled, client, webVars, fairVars, ragVars, extVars>>

\* line 613
BgExceptStatusAt(j) ==
    /\ bg[j] = "except_status"
    /\ JOBS' = [JOBS EXCEPT ![j].status = "error"]
    /\ bg' = [bg EXCEPT ![j] = "finished"]
    /\ UNCHANGED <<CHATS, leases, poll, polled, client, webVars, fairVars, ragVars, extVars>>

\* analysis_status lines 790-797: an unknown job is answered 404, otherwise
\* the response takes the status as it is now.
StatusLookup ==
    /\ poll.pc = "idle"
    /\ \E j \in JobIds :
         IF j \in DOMAIN JOBS
         THEN /\ poll' = [pc |-> "check", job |-> j, status |-> JOBS[j].status]
              /\ UNCHANGED polled
         ELSE /\ polled' = [NoResponse EXCEPT !.code = 404]
              /\ UNCHANGED poll
    /\ UNCHANGED <<JOBS, CHATS, leases, bg, client, webVars, fairVars, ragVars, extVars>>

\* line 798: the status is read a second time to decide on the result.
StatusCheck ==
    /\ poll.pc = "check"
    /\ IF JOBS[poll.job].status \in {"done", "error"}
       THEN /\ poll' = [poll EXCEPT !.pc = "result"]
            /\ UNCHANGED polled
       ELSE /\ polled' = [code |-> 200, status |-> poll.status,
                          has_result |-> FALSE, result |-> ResultNone]
            /\ poll' = NoPoll
    /\ UNCHANGED <<JOBS, CHATS, leases, bg, client, webVars, fairVars, ragVars, extVars>>

\* lines 799-800
StatusResult ==
    /\ poll.pc = "result"
    /\ polled' = [code |-> 200, status |-> poll.status,
                  has_result |-> TRUE, result |-> JOBS[poll.job].result]
    /\ poll' = NoPoll
    /\ UNCHANGED <<JOBS, CHATS, leases, bg, client, webVars, fairVars, ragVars, extVars>>

\* What analysis_status answers to the script for job j (lines 788-800); the
\* script looks at the status and the result only.
StatusAnswer(j) ==
    [code |-> 200, status |-> JOBS[j].status,
     has_result |-> JOBS[j].status \in {"done", "error"},
     result |-> IF JOBS[j].status \in {"done", "error"} THEN JOBS[j].result ELSE ResultNone]

Stopped(said, printed) ==
    [client EXCEPT !.pc = "stopped", !.said = said, !.printed = printed]

\* upload_and_poll.py lines 22-47: the upload.  Without an answer (the post
\* raises, e.g. after its 60 s timeout), with a body that is no JSON, or
\* with an answer that has no job_id (the handler's 400 and 500 answers) the
\* script returns.  The server may have created the job all the same.
ClientUpload ==
    /\ client.pc = "upload"
    /\ \/ /\ \E said \in {"Upload failed", "Unexpected response", "No job_id returned"} :
               client' = Stopped(said, ResultNone)
          /\ UNCHANGED <<JOBS, CHATS, leases, bg>>
       \/ \E user \in UserIds \cup {NoUser}, outcome \in SaveOutcomes, answered \in BOOLEAN :
            /\ StartJob(user, outcome)
            /\ client' = IF ~answered THEN Stopped("Upload failed", ResultNone)
                         ELSE IF Escaped(outcome) THEN Stopped("No job_id returned", ResultNone)
                         ELSE [client EXCEPT !.pc = "poll", !.job = Len(JOBS) + 1]
    /\ UNCHANGED <<poll, polled, webVars, fairVars, ragVars, extVars>>

\* upload_and_poll.py lines 48-67: one round of the polling loop.  The status
\* request raises (jr = None) or is answered; a status done or error ends
\* the script with the result, the elapsed time over --timeout ends it with
\* 'Timed out', otherwise it sleeps and polls again.
ClientPoll ==
    /\ client.pc = "poll"
    /\ \E failed \in BOOLEAN, took \in 0..MaxRequestTime :
         LET jr == StatusAnswer(client.job)
             now == client.elapsed + took
         IN  client' = IF ~failed /\ jr.status \in {"done", "error"}
                       THEN Stopped("Final result", jr.result)
                       ELSE IF now > PollTimeout
                       THEN Stopped("Timed out", ResultNone)
                       ELSE [client EXCEPT !.elapsed = now + 1]
    /\ UNCHANGED <<JOBS, CHATS, leases, bg, poll, polled, webVars, fairVars, ragVars, extVars>>

\* One background thread per job, each at its own position.
BgCompute == \E j \in DOMAIN JOBS : BgComputeAt(j)
BgWriteResult == \E j \in DOMAIN JOBS : BgWriteResultAt(j)
BgWriteContract == \E j \in DOMAIN JOBS : BgWriteContractAt(j)
BgWriteStatus == \E j \in DOMAIN JOBS : BgWriteStatusAt(j)
BgDbUpdate == \E j \in DOMAIN JOBS : BgDbUpdateAt(j)
BgExceptResult == \E j \in DOMAIN JOBS : BgExceptResultAt(j)
BgExceptStatus == \E j \in DOMAIN JOBS : BgExceptStatusAt(j)

JobNext ==
    \/ ProcessLeasePdf
    \/ BgCompute
    \/ BgWriteResult
    \/ BgWriteContract
    \/ BgWriteStatus
    \/ BgDbUpdate
    \/ BgExceptResult
    \/ BgExceptStatus
    \/ StatusLookup
    \/ StatusCheck
    \/ StatusResult
    \/ ClientUpload
    \/ ClientPoll

SpecJob == JobInit /\ [][JobNext]_vars

\* A started thread runs to its end: each of its steps is a statement or a
\* call that returns or raises (the NHTSA requests have timeout=10), and
\* the thread is scheduled fairly.  The script is a process of its own.
BgStepAt(j) ==
    /\ j \in DOMAIN JOBS
    /\ \/ BgComputeAt(j) \/ BgWriteResultAt(j) \/ BgWriteContractAt(j) \/ BgWriteStatusAt(j)
       \/ BgDbUpdateAt(j) \/ BgExceptResultAt(j) \/ BgExceptStatusAt(j)

SpecJobLive ==
    /\ SpecJob
    /\ \A j \in JobIds : WF_vars(BgStepAt(j))
    /\ WF_vars(ClientUpload) /\ WF_vars(ClientPoll)

\* C2: a job's status and result are written exactly once, at completion:
\* once the status is done or error, neither the status nor the result of
\* that job is ever written again.
C2_WrittenOnce ==
    [][\A j \in DOMAIN JOBS :
          JOBS[j].status \in {"done", "error"} =>
              /\ JOBS'[j].status = JOBS[j].status
              /\ JOBS'[j].result = JOBS[j].result]_vars

\* A job stored as done holds the analysis.
DoneHoldsAnalysis ==
    \A j \in DOMAIN JOBS : JOBS[j].status = "done" => JOBS[j].result = ResultAnalysis

\* An answer with status done carries the analysis.
DoneAnswerHoldsAnalysis ==
    (polled.code = 200 /\ polled.status = "done") =>
        (polled.has_result /\ polled.result = ResultAnalysis)

\* An answer with status pending carries no result.
PendingAnswerHasNoResult ==
    (polled.code = 200 /\ polled.status = "pending") => ~polled.has_result

\* C25: under every interleaving of the background thread with
\* analysis_status requests, a job whose status reads done has a result
\* holding negotiation_advice, fairness_analysis and full_extraction (never
\* null, never an error payload), and an answer whose status reads pending
\* exposes no result.
C25_StatusMatchesResult ==
    DoneHoldsAnalysis /\ DoneAnswerHoldsAnalysis /\ PendingAnswerHasNoResult

\* C25, first part, stored state only.
C25_DoneHoldsAnalysis == DoneHoldsAnalysis

\* C25, second part only.
C25_PendingAnswerHasNoResult == PendingAnswerHasNoResult

\* A job stored as done, and an answer with status done, never has a null
\* result.
C25_DoneNeverNull ==
    /\ \A j \in DOMAIN JOBS : JOBS[j].status = "done" => ~JOBS[j].result.isNone
    /\ (polled.code = 200 /\ polled.status = "done") =>
           (polled.has_result /\ ~polled.result.isNone)

Ended(j) == j \in DOMAIN JOBS /\ JOBS[j].status \in {"done", "error"}
Started(j) == j \in DOMAIN JOBS /\ bg[j] # "not_started"

\* C20: every job created by process_lease_pdf eventually has the status
\* done or error, when every call returns and the threads run fairly.
C20_EveryJobEnds ==
    \A j \in JobIds : (j \in DOMAIN JOBS) ~> Ended(j)

\* C20, for the jobs whose thread was started.
C20_StartedJobEnds ==
    \A j \in JobIds : Started(j) ~> Ended(j)

\* C20: the polling script eventually stops.
C20_ClientStops == <>(client.pc = "stopped")

\* C20: the polling script eventually stops with the final result of its job.
C20_ClientGetsResult == <>(client.pc = "stopped" /\ client.said = "Final result")

(***************************************************************************)
(*                             STRINGS                                     *)
(* A string is a sequence of tokens and a token a sequence of characters:  *)
(* either one whitespace character or a word, a maximal run of             *)
(* non-whitespace characters.                                              *)
(***************************************************************************)
SP == <<" ">>
NL == <<"\n">>
Whitespace == {SP, NL}

\* str.split(): the words, in order.
Split(str) == SelectSeq(str, LAMBDA tok : tok \notin Whitespace)

\* sep.join(parts) for a list of strings; sep is a string too.
RECURSIVE Join(_, _)
Join(parts, sep) ==
    IF Len(parts) = 0 THEN <<>>
    ELSE IF Len(parts) = 1 THEN parts[1]
    ELSE Join(SubSeq(parts, 1, Len(parts) - 1), sep) \o sep \o parts[Len(parts)]

\* " ".join(words): each word is a one-token string.
JoinWords(words) ==
    IF Len(words) = 0 THEN <<>>
    ELSE [i \in 1..(2 * Len(words) - 1) |->
            IF i % 2 = 1 THEN words[(i + 1) \div 2] ELSE SP]

LowerChar(c) ==
    CASE c = "A" -> "a" [] c = "B" -> "b" [] c = "C" -> "c" [] c = "D" -> "d" [] c = "E" -> "e"
      [] c = "F" -> "f" [] c = "G" -> "g" [] c = "H" -> "h" [] c = "I" -> "i" [] c = "J" -> "j"
      [] c = "K" -> "k" [] c = "L" -> "l" [] c = "M" -> "m" [] c = "N" -> "n" [] c = "O" -> "o"
      [] c = "P" -> "p" [] c = "Q" -> "q" [] c = "R" -> "r" [] c = "S" -> "s" [] c = "T" -> "t"
      [] c = "U" -> "u" [] c = "V" -> "v" [] c = "W" -> "w" [] c = "X" -> "x" [] c = "Y" -> "y"
      [] c = "Z" -> "z"
      [] OTHER -> c

\* str.lower()
Lower(str) == [i \in 1..Len(str) |-> [j \in 1..Len(str[i]) |-> LowerChar(str[i][j])]]

\* `k in s` for a keyword (a word) and a string: a keyword holds no
\* whitespace, so it can only occur inside one word of the string.
Occurs(k, tok) ==
    \E start \in 1..(Len(tok) - Len(k) + 1) : SubSeq(tok, start, start + Len(k) - 1) = k
Contains(str, k) == \E i \in 1..Len(str) : Occurs(k, str[i])

(***************************************************************************)
(*                              CHUNKER                                    *)
(* Tokenization.chunk_text and the identical chunk_text nested in          *)
(* streamlit_app.get_negotiation_advice.                                   *)
(***************************************************************************)
DEFAULT_CHUNK_SIZE == 120
MIN_CHUNK_WORDS == 20

KeepOnlyFull(window, size) == Len(window) >= size
KeepEveryWindow(window, size) == TRUE

\* the list comprehension's filter: len(words[i:i + chunk_size]) > 20
KeepWindow(window, size) == Len(window) > MIN_CHUNK_WORDS

\* words[i:i + chunk_size] for i in range(0, len(words), chunk_size)
Windows(words, size) ==
    [k \in 1..((Len(words) + size - 1) \div size) |->
        SubSeq(words, (k - 1) * size + 1, Min(k * size, Len(words)))]

chunk_text(str, size) ==
    LET kept == SelectSeq(Windows(Split(str), size), LAMBDA w : KeepWindow(w, size))
    IN  [k \in 1..Len(kept) |-> JoinWords(kept[k])]

(***************************************************************************)
(*                         RETRIEVAL PIPELINE                              *)
(* Tokenization.py (module level, keyword filter, budget 500, no guard on  *)
(* an empty result) and streamlit_app.get_negotiation_advice (no keyword   *)
(* filter, budget 400, guards on no chunks and on an empty context).       *)
(***************************************************************************)
TOP_K == 6
MAX_CONTEXT_WORDS_TOKENIZATION == 500
MAX_CONTEXT_WORDS_STREAMLIT == 400

MAX_CONTEXT_WORDS(v) ==
    IF v = "Tokenization" THEN MAX_CONTEXT_WORDS_TOKENIZATION
    ELSE MAX_CONTEXT_WORDS_STREAMLIT

KEYWORDS ==
    {<<"p", "a", "y", "m", "e", "n", "t">>,
     <<"f", "e", "e">>,
     <<"p", "e", "n", "a", "l", "t", "y">>,
     <<"t", "e", "r", "m", "i", "n", "a", "t", "i", "o", "n">>,
     <<"m", "i", "l", "e", "a", "g", "e">>,
     <<"i", "n", "s", "u", "r", "a", "n", "c", "e">>,
     <<"c", "o", "s", "t">>,
     <<"d", "e", "p", "o", "s", "i", "t">>,
     <<"c", "h", "a", "r", "g", "e">>}

\* any(k in chunk.lower() for k in KEYWORDS)
HasKeyword(chunk) == \E k \in KEYWORDS : Contains(Lower(chunk), k)

PassesAlways(v, chunk) == TRUE

\* Only Tokenization.py filters on keywords.
PassesFilter(v, chunk) == v = "streamlit" \/ HasKeyword(chunk)

ExceedsAfterAdding(count, n, limit) == count > limit

\* word_count + len(words) > MAX_CONTEXT_WORDS
Exceeds(count, n, limit) == count + n > limit

\* Position (1-based) of chunks[i] for a Python index i: a negative index
\* counts from the end of the list.
PyIndex(i, n) == IF i >= 0 THEN i + 1 ELSE n + i + 1

\* IndexFlatL2.search(query, k): the labels of the k nearest vectors by
\* ascending distance (equal distances in insertion order), 0-based; when
\* the index holds fewer than k vectors the row is padded with -1.
Nearer(d, a, b) == d[a] < d[b] \/ (d[a] = d[b] /\ a < b)
Ranked(d, r) == CHOOSE c \in DOMAIN d : Cardinality({b \in DOMAIN d : Nearer(d, b, c)}) = r - 1
FaissSearch(d, k) ==
    [r \in 1..k |-> IF r <= Len(d) THEN Ranked(d, r) - 1 ELSE -1]

(***************************************************************************)
(* Input texts.  Words alternate between two plain words; the first word   *)
(* of a window is a keyword-bearing word where the pattern flags that      *)
(* window.                                                                 *)
(***************************************************************************)
W_the == <<"t", "h", "e">>
W_car == <<"c", "a", "r">>
W_Fees == <<"F", "E", "E", "S">>

KwPatterns == {"none", "all", "odd", "first"}
Flagged(pattern, k) ==
    CASE pattern = "none" -> FALSE
      [] pattern = "all" -> TRUE
      [] pattern = "odd" -> k % 2 = 1
      [] pattern = "first" -> k = 1

DocWords(n, size, pattern) ==
    [p \in 1..n |->
        IF (p - 1) % size = 0 /\ Flagged(pattern, ((p - 1) \div size) + 1) THEN W_Fees
        ELSE IF p % 2 = 0 THEN W_car ELSE W_the]

\* The words laid out as text: "plain" with single spaces, "lines" with a
\* leading newline, a newline after every second word and a trailing blank.
TextOf(words, style) ==
    IF style = "plain" THEN JoinWords(words)
    ELSE <<NL>> \o [i \in 1..(2 * Len(words)) |->
                      IF i % 2 = 1 THEN words[(i + 1) \div 2]
                      ELSE IF i % 4 = 0 THEN NL ELSE SP]

MaxChunkSize == 23
MaxWords == 70

ChunkInit ==
    /\ variant = "chunk_text"
    /\ chunk_size \in 1..MaxChunkSize
    /\ \E n \in 0..MaxWords, style \in {"plain", "lines"} :
         documents = <<TextOf(DocWords(n, chunk_size, "odd"), style)>>
    /\ chunks = <<>> /\ dist = <<>> /\ indices = <<>> /\ context_chunks = <<>>
    /\ word_count = 0 /\ pos = 0 /\ context = <<>> /\ rag = "loaded"
    /\ llm_prompts = <<>>
    /\ FairIdle /\ JobIdle /\ ExtIdle

\* chunk_text(text, chunk_size) applied to the text.
ChunkText ==
    /\ rag = "loaded" /\ variant = "chunk_text"
    /\ chunks' = chunk_text(documents[1], chunk_size)
    /\ rag' = "chunked"
    /\ UNCHANGED <<variant, documents, chunk_size, dist, indices, context_chunks,
                   word_count, pos, context, llm_prompts,
                   fairVars, jobVars, extVars>>

ChunkNext == ChunkText

SpecChunk == ChunkInit /\ [][ChunkNext]_vars

\* The words of the chunks, concatenated in order.
ChunkedWords == Split(Join(chunks, <<SP>>))
LostWords == Len(Split(documents[1])) - Len(ChunkedWords)
FinalWindowLen ==
    LET n == Len(Split(documents[1]))
    IN  IF n = 0 THEN 0 ELSE ((n - 1) % chunk_size) + 1
OnlyTrailingFragmentLost ==
    /\ ChunkedWords = SubSeq(Split(documents[1]), 1, Len(ChunkedWords))
    /\ \/ LostWords = 0
       \/ LostWords = FinalWindowLen /\ LostWords <= MIN_CHUNK_WORDS

\* C3 as stated: for every text and every window size >= 1 the chunks,
\* concatenated, are the text's words minus at most the final window, which
\* is lost only when it has at most 20 words.
C3_AnyWindowSize ==
    rag = "chunked" => OnlyTrailingFragmentLost

\* C3 amended: the same for every window size greater than the 20-word
\* minimum (a window size of at most 20 loses every window).
C3_WindowAboveMinimum ==
    (rag = "chunked" /\ chunk_size > MIN_CHUNK_WORDS) => OnlyTrailingFragmentLost

\* C3 witness: a text of several windows whose short final window is dropped.
C3_Witness ==
    /\ rag = "chunked" /\ chunk_size > MIN_CHUNK_WORDS
    /\ Len(chunks) >= 2 /\ LostWords > 0

\* C23: every chunk has more than 20 and at most chunk_size words, every
\* chunk but the last has exactly chunk_size words, the chunks are
\* consecutive stretches of the text's words in document order, and a text
\* without words yields no chunk.
C23_ChunkShape ==
    rag = "chunked" =>
        /\ \A k \in DOMAIN chunks :
             /\ Len(Split(chunks[k])) > MIN_CHUNK_WORDS
             /\ Len(Split(chunks[k])) <= chunk_size
             /\ k < Len(chunks) => Len(Split(chunks[k])) = chunk_size
             /\ Split(chunks[k]) =
                  SubSeq(Split(documents[1]), (k - 1) * chunk_size + 1,
                         (k - 1) * chunk_size + Len(Split(chunks[k])))
        /\ Split(documents[1]) = <<>> => chunks = <<>>

\* C23 witness: several chunks, the last one shorter than the window.
C23_Witness ==
    /\ rag = "chunked" /\ Len(chunks) >= 3
    /\ Len(Split(chunks[Len(chunks)])) < chunk_size

\* A text of whitespace only has been chunked.
C23_WhitespaceOnly ==
    /\ rag = "chunked" /\ documents[1] # <<>> /\ Split(documents[1]) = <<>>

(***************************************************************************)
(* The pipeline, one step per stage.                                       *)
(***************************************************************************)
MaxFull == 6
MaxDist == 3

\* Word counts around the window and minimum-size boundaries.
RagWordCounts ==
    { k * DEFAULT_CHUNK_SIZE + r : k \in 0..MaxFull, r \in {0, MIN_CHUNK_WORDS, MIN_CHUNK_WORDS + 1} }

ShortDocs ==
    { TextOf(DocWords(MIN_CHUNK_WORDS + 1, DEFAULT_CHUNK_SIZE, pattern), "lines") :
        pattern \in {"none", "all"} }

\* Tokenization.py keeps the non-empty texts of the directory; streamlit_app
\* is handed one text, which may be empty.
RagDocuments(v) ==
    IF v = "streamlit"
    THEN { <<TextOf(DocWords(n, DEFAULT_CHUNK_SIZE, "first"), "plain")>> : n \in RagWordCounts }
    ELSE {<<>>}
         \cup { <<TextOf(DocWords(n, DEFAULT_CHUNK_SIZE, pattern), "plain")>> :
                  n \in RagWordCounts \ {0}, pattern \in KwPatterns }
         \cup { <<TextOf(DocWords(n, DEFAULT_CHUNK_SIZE, pattern), "plain"), short>> :
                  n \in {MIN_CHUNK_WORDS + 1, DEFAULT_CHUNK_SIZE},
                  pattern \in {"none", "odd"}, short \in ShortDocs }
         \cup { <<TextOf(DocWords(4 * DEFAULT_CHUNK_SIZE + MIN_CHUNK_WORDS + 1,
                                   DEFAULT_CHUNK_SIZE, "all"), "plain"), short>> :
                  short \in ShortDocs }

\* Distances of n chunks to the query: constant, rising and falling cycles
\* over 1..MaxDist, so that ties and out-of-order neighbours both occur.
Distances(n) ==
    { [i \in 1..n |-> 1 + ((a * i + b) % MaxDist)] : a \in 0..(MaxDist - 1), b \in 0..(MaxDist - 1) }

RagInit ==
    /\ variant \in {"Tokenization", "streamlit"}
    /\ documents \in RagDocuments(variant)
    /\ chunk_size = DEFAULT_CHUNK_SIZE
    /\ chunks = <<>> /\ dist = <<>> /\ indices = <<>> /\ context_chunks = <<>>
    /\ word_count = 0 /\ pos = 0 /\ context = <<>> /\ rag = "loaded"
    /\ llm_prompts = <<>>
    /\ FairIdle /\ JobIdle /\ ExtIdle

RECURSIVE ChunkAll(_, _)
ChunkAll(docs, size) ==
    IF Len(docs) = 0 THEN <<>>
    ELSE ChunkAll(SubSeq(docs, 1, Len(docs) - 1), size) \o chunk_text(docs[Len(docs)], size)

\* Tokenization.py lines 86-88; streamlit_app.py lines 94-96, which returns
\* {"error": "No chunks created"} when there are none.
Chunking ==
    /\ rag = "loaded" /\ variant \in {"Tokenization", "streamlit"}
    /\ chunks' = ChunkAll(documents, chunk_size)
    /\ rag' = IF variant = "streamlit" /\ Len(chunks') = 0 THEN "no_chunks" ELSE "chunked"
    /\ UNCHANGED <<variant, documents, chunk_size, dist, indices, context_chunks,
                   word_count, pos, context, llm_prompts,
                   fairVars, jobVars, extVars>>

\* Tokenization.py lines 93-95 with no chunk at all: encode([]) gives an
\* array without a second dimension and embeddings.shape[1] raises.
EmbedNothing ==
    /\ rag = "chunked" /\ variant = "Tokenization" /\ Len(chunks) = 0
    /\ rag' = "raised"
    /\ UNCHANGED <<variant, documents, chunk_size, chunks, dist, indices,
                   context_chunks, word_count, pos, context, llm_prompts,
                   fairVars, jobVars, extVars>>

\* Embedding, index build and index.search(query_embedding, TOP_K).  The
\* distances of the chunks to the query are the embedding model's business.
Search ==
    /\ rag = "chunked" /\ variant \in {"Tokenization", "streamlit"} /\ Len(chunks) > 0
    /\ \E d \in Distances(Len(chunks)) :
         /\ dist' = d
         /\ indices' = FaissSearch(d, TOP_K)
    /\ rag' = "searched"
    /\ UNCHANGED <<variant, documents, chunk_size, chunks, context_chunks,
                   word_count, pos, context, llm_prompts,
                   fairVars, jobVars, extVars>>

\* One iteration of `for i in indices[0]`: the chunk is fetched with
\* chunks[i], filtered, and either breaks the loop or joins the context.
ContextLoop ==
    /\ rag = "searched" /\ pos < Len(indices)
    /\ LET chunk == chunks[PyIndex(indices[pos + 1], Len(chunks))]
           words == Split(chunk)
       IN  /\ pos' = pos + 1
           /\ IF ~PassesFilter(variant, chunk)
              THEN UNCHANGED <<context_chunks, word_count, rag>>
              ELSE IF Exceeds(word_count, Len(words), MAX_CONTEXT_WORDS(variant))
              THEN rag' = "broke" /\ UNCHANGED <<context_chunks, word_count>>
              ELSE /\ context_chunks' = Append(context_chunks, chunk)
                   /\ word_count' = word_count + Len(words)
                   /\ UNCHANGED rag
    /\ UNCHANGED <<variant, documents, chunk_size, chunks, dist, indices,
                   context, llm_prompts, fairVars, jobVars, extVars>>

\* The loop runs out of entries.
ContextLoopEnd ==
    /\ rag = "searched" /\ pos = Len(indices)
    /\ rag' = "exhausted"
    /\ UNCHANGED <<variant, documents, chunk_size, chunks, dist, indices,
                   context_chunks, word_count, pos, context, llm_prompts,
                   fairVars, jobVars, extVars>>

\* context = "\n\n".join(context_chunks).  streamlit_app returns
\* {"error": "No relevant lease clauses found"} for a blank context;
\* Tokenization.py formats the prompt whatever the context is.
BuildContext ==
    /\ rag \in {"broke", "exhausted"}
    /\ context' = Join(context_chunks, <<NL, NL>>)
    /\ rag' = IF variant = "streamlit" /\ Len(Split(context')) = 0 THEN "no_context"
              ELSE "prompted"
    /\ UNCHANGED <<variant, documents, chunk_size, chunks, dist, indices,
                   context_chunks, word_count, pos, llm_prompts,
                   fairVars, jobVars, extVars>>

\* _call_llm(prompt): the prompt carries the context; the answer is an empty
\* string on failure, JSON text, or other text.
CallLlm ==
    /\ rag = "prompted"
    /\ llm_prompts' = Append(llm_prompts, context)
    /\ \E answer \in {"", "json", "text"} :
         rag' = CASE answer = "" -> "llm_failed"
                  [] answer = "json" -> "parsed"
                  [] OTHER -> "unparsed"
    /\ UNCHANGED <<variant, documents, chunk_size, chunks, dist, indices,
                   context_chunks, word_count, pos, context,
                   fairVars, jobVars, extVars>>

RagNext ==
    \/ Chunking
    \/ EmbedNothing
    \/ Search
    \/ ContextLoop
    \/ ContextLoopEnd
    \/ BuildContext
    \/ CallLlm

SpecRag == RagInit /\ [][RagNext]_vars

\* The chunks the context loop has fetched so far, as positions in chunks.
Visited == [i \in 1..pos |-> PyIndex(indices[i], Len(chunks))]

\* C4: the sequence of chunks that context assembly iterates over holds at
\* most min(TOP_K, n) chunks and is in order of non-decreasing distance to
\* the query, also when n < TOP_K and the search result is padded with -1.
C4_RetrievedWithinTopK ==
    rag \in {"searched", "broke", "exhausted"} =>
        /\ pos <= Min(TOP_K, Len(chunks))
        /\ \A i, j \in 1..pos : i < j => dist[Visited[i]] <= dist[Visited[j]]

\* C5: the assembled context, and every context handed on in a prompt, has
\* a whitespace-split word count of at most MAX_CONTEXT_WORDS.
C5_ContextWithinBudget ==
    /\ Len(Split(context)) <= MAX_CONTEXT_WORDS(variant)
    /\ \A i \in DOMAIN llm_prompts : Len(Split(llm_prompts[i])) <= MAX_CONTEXT_WORDS(variant)

\* A context was assembled after the loop refused a chunk for the budget.
C5_Witness ==
    /\ rag = "prompted" /\ variant = "streamlit"
    /\ pos > Len(context_chunks)
    /\ Len(Split(context)) > 0
    /\ Len(Split(context)) + Len(Split(chunks[Visited[pos]])) > MAX_CONTEXT_WORDS(variant)

\* C6: the language model is never called with an empty context, and the
\* run does not raise.
C6_NoCallWithEmptyContext ==
    /\ rag # "raised"
    /\ \A i \in DOMAIN llm_prompts : Len(Split(llm_prompts[i])) > 0

\* The chunks the loop is handed, in the order of indices[0], and those of
\* them that hold a keyword.
Fetched == [i \in 1..Len(indices) |-> chunks[PyIndex(indices[i], Len(chunks))]]
PassingChunks == SelectSeq(Fetched, HasKeyword)

\* the words of the first k strings of seq
RECURSIVE WordTotal(_, _)
WordTotal(seq, k) == IF k = 0 THEN 0 ELSE WordTotal(seq, k - 1) + Len(Split(seq[k]))

RECURSIVE Total(_, _)
Total(counts, k) == IF k = 0 THEN 0 ELSE Total(counts, k - 1) + counts[k]

\* the longest prefix of seq whose words number at most limit
LongestPrefix(seq, limit) ==
    LET counts == [i \in 1..Len(seq) |-> Len(Split(seq[i]))]
        fits == { k \in 0..Len(seq) : Total(counts, k) <= limit }
    IN  SubSeq(seq, 1, CHOOSE k \in fits : \A m \in fits : m <= k)

LoopDone == {"broke", "exhausted", "prompted", "llm_failed", "parsed", "unparsed"}

\* C22: in Tokenization.py the context is the longest prefix of the
\* keyword-passing chunks, in the order the loop is handed them, whose words
\* number at most MAX_CONTEXT_WORDS, joined by a blank line; chunks without
\* a keyword are skipped and nothing is added after the first chunk that
\* does not fit.
C22_ContextIsLongestPrefix ==
    (variant = "Tokenization" /\ rag \in LoopDone) =>
        /\ LET passing == PassingChunks
           IN  context_chunks = LongestPrefix(passing, MAX_CONTEXT_WORDS_TOKENIZATION)
        /\ rag \notin {"broke", "exhausted"} => context = Join(context_chunks, <<NL, NL>>)

\* The loop skipped a chunk without keyword, or stopped at a chunk that did
\* not fit although a later, smaller one would have.
C22_Witness ==
    /\ variant = "Tokenization" /\ rag = "prompted"
    /\ Len(context_chunks) = 4 /\ Len(PassingChunks) = 6
    /\ WordTotal(PassingChunks, 4) + Len(Split(PassingChunks[6])) <= MAX_CONTEXT_WORDS_TOKENIZATION
    /\ WordTotal(PassingChunks, 5) > MAX_CONTEXT_WORDS_TOKENIZATION

\* The positions in chunks of the chunks that were put in the context.
Included ==
    LET passing == SelectSeq(
            [i \in 1..Len(indices) |-> PyIndex(indices[i], Len(chunks))],
            LAMBDA c : PassesFilter(variant, chunks[c]))
    IN  SubSeq(passing, 1, Len(context_chunks))

NoChunkTwice == \A a, b \in DOMAIN Included : a < b => Included[a] # Included[b]

\* C27: the assembled context never holds the same chunk twice, for any
\* number of chunks n >= 1, fewer than TOP_K included.
C27_NoChunkTwice ==
    rag \in LoopDone => NoChunkTwice

\* C27 for texts with at least TOP_K chunks, where the search result has no
\* padding.
C27_NoChunkTwiceWithoutPadding ==
    (rag \in LoopDone /\ Len(chunks) >= TOP_K) => NoChunkTwice

(***************************************************************************)
(*                        VEHICLE ENRICHMENT                               *)
(* vehicle_enrichment.py: extract_vins_from_text, decode_vin_nhtsa,        *)
(* get_vehicle_recalls, extract_vehicle_info, extract_full_lease_fields.   *)
(* The text searched for VINs is a sequence of characters.  None is NULL   *)
(* in a field that otherwise holds a string and NoneObj in a field that    *)
(* otherwise holds a VIN, a list or a dict.                                *)
(***************************************************************************)
NoneObj == <<>>

UpperChar(c) ==
    CASE c = "a" -> "A" [] c = "b" -> "B" [] c = "c" -> "C" [] c = "d" -> "D" [] c = "e" -> "E"
      [] c = "f" -> "F" [] c = "g" -> "G" [] c = "h" -> "H" [] c = "i" -> "I" [] c = "j" -> "J"
      [] c = "k" -> "K" [] c = "l" -> "L" [] c = "m" -> "M" [] c = "n" -> "N" [] c = "o" -> "O"
      [] c = "p" -> "P" [] c = "q" -> "Q" [] c = "r" -> "R" [] c = "s" -> "S" [] c = "t" -> "T"
      [] c = "u" -> "U" [] c = "v" -> "V" [] c = "w" -> "W" [] c = "x" -> "X" [] c = "y" -> "Y"
      [] c = "z" -> "Z"
      [] OTHER -> c

\* [A-HJ-NPR-Z0-9]
VinChars ==
    {"A", "B", "C", "D", "E", "F", "G", "H", "J", "K", "L", "M", "N", "P",
     "R", "S", "T", "U", "V", "W", "X", "Y", "Z",
     "0", "1", "2", "3", "4", "5", "6", "7", "8", "9"}

\* \w, for the characters of the texts
WordChars ==
    VinChars \cup {"I", "O", "Q", "_"} \cup
    {"a", "b", "c", "d", "e", "f", "g", "h", "i", "j", "k", "l", "m", "n", "o", "p",
     "q", "r", "s", "t", "u", "v", "w", "x", "y", "z"}

VIN_LENGTH == 17

\* text.upper()[i]
UpperAt(s, i) == UpperChar(s[i])

\* \b before position p of text.upper() (p = Len(s) + 1: at the end)
Boundary(s, p) ==
    ((p - 1) \in DOMAIN s /\ UpperAt(s, p - 1) \in WordChars)
        # (p \in DOMAIN s /\ UpperAt(s, p) \in WordChars)

\* \b([A-HJ-NPR-Z0-9]{17})\b matches at position p
MatchAt(s, p) ==
    /\ p + VIN_LENGTH - 1 <= Len(s)
    /\ Boundary(s, p)
    /\ \A i \in p..(p + VIN_LENGTH - 1) : UpperAt(s, i) \in VinChars
    /\ Boundary(s, p + VIN_LENGTH)

\* re.findall: the non-overlapping matches, left to right
RECURSIVE FindAll(_, _)
FindAll(s, p) ==
    IF p > Len(s) THEN <<>>
    ELSE IF MatchAt(s, p)
         THEN <<[i \in 1..VIN_LENGTH |-> UpperAt(s, p + i - 1)]>> \o FindAll(s, p + VIN_LENGTH)
         ELSE FindAll(s, p + 1)

KeepAll(found) == found

\* the seen-set loop: the first occurrence of each element, in order
Unique(found) ==
    LET vins[i \in 0..Len(found)] ==
            IF i = 0 THEN <<>>
            ELSE IF \E j \in DOMAIN vins[i - 1] : vins[i - 1][j] = found[i]
                 THEN vins[i - 1]
                 ELSE Append(vins[i - 1], found[i])
    IN  vins[Len(found)]

extract_vins_from_text(s) ==
    IF Len(s) = 0 THEN <<>>
    ELSE Unique(FindAll(s, 1))

(***************************************************************************)
(* The patterns of the financial terms (lines 224-231; the scorer has the  *)
(* same ones on lines 50-58), matched character by character as re.search  *)
(* with re.I does.  A pattern is a sequence of items, each a literal text  *)
(* or a character class repeated lo..hi times (hi = -1: any number),       *)
(* greedy or lazy, with group 1 spanning the items first..last.            *)
(***************************************************************************)
Digits == {"0", "1", "2", "3", "4", "5", "6", "7", "8", "9"}
Space == {" ", "\t", "\n", "\r"}

Item(chars, lo, hi) ==
    [lit |-> <<>>, chars |-> chars, negated |-> FALSE, lo |-> lo, hi |-> hi, lazy |-> FALSE]
\* .*? : any character but a newline, as few as possible
LazyDots ==
    [lit |-> <<>>, chars |-> {"\n"}, negated |-> TRUE, lo |-> 0, hi |-> -1, lazy |-> TRUE]
Literal(str) ==
    [lit |-> [i \in DOMAIN str |-> UpperChar(str[i])], chars |-> {}, negated |-> FALSE,
     lo |-> 1, hi |-> 1, lazy |-> FALSE]
Pattern(items, first, last) == [items |-> items, first |-> first, last |-> last]

\* item matches the character at position i (re.I)
Accepts(item, s, i) == i \in DOMAIN s /\ ((UpperAt(s, i) \in item.chars) # item.negated)

\* how many characters from position i on the item can take at most
Run(item, s, i) ==
    LET limit == IF item.hi = -1 THEN Len(s) + 1 - i ELSE item.hi
        stops == { n \in 0..limit : n = limit \/ ~Accepts(item, s, i + n) }
    IN  CHOOSE n \in stops : \A m \in stops : n <= m

\* the numbers of characters the item can take at position i
Takes(item, s, i) ==
    IF Len(item.lit) > 0
    THEN IF \A j \in DOMAIN item.lit : (i + j - 1) \in DOMAIN s /\ UpperAt(s, i + j - 1) = item.lit[j]
         THEN {Len(item.lit)} ELSE {}
    ELSE item.lo..Run(item, s, i)

\* The positions at which the items k.. start and the match ends when the
\* rest of the pattern matches at position i; <<>> when it does not.  The
\* backtracking matcher settles on the longest repetition of a greedy item
\* (the shortest of a lazy one) after which the rest matches.  (The rests
\* are bound by a quantifier so that they are computed once.)
RECURSIVE MatchFrom(_, _, _, _)
MatchFrom(items, k, s, i) ==
    IF k > Len(items) THEN <<i>>
    ELSE CHOOSE at \in
           { IF rests = {} THEN <<>>
             ELSE <<i>> \o (CHOOSE a \in rests : \A b \in rests :
                               IF items[k].lazy THEN a[1] <= b[1] ELSE a[1] >= b[1]) :
             rests \in { { MatchFrom(items, k + 1, s, i + n) : n \in Takes(items[k], s, i) }
                         \ {<<>>} } } : TRUE

\* str.strip()
Strip(str) ==
    LET inked == { i \in DOMAIN str : str[i] \notin Space }
    IN  IF inked = {} THEN <<>>
        ELSE SubSeq(str, CHOOSE a \in inked : \A b \in inked : a <= b,
                         CHOOSE a \in inked : \A b \in inked : a >= b)

\* None where a string is a sequence of characters ('' is <<>>)
NoCapture == <<NULL>>

\* _regex_search / _find: group 1 of the leftmost match, stripped, or None
regex_search(pattern, s) ==
    CHOOSE m \in
      { IF matches = {} THEN [found |-> FALSE, group |-> NoCapture]
        ELSE CHOOSE g \in
               { [found |-> TRUE,
                  group |-> Strip(SubSeq(s, at[pattern.first], at[pattern.last + 1] - 1))] :
                 at \in { CHOOSE a \in matches : \A b \in matches : a[1] <= b[1] } } : TRUE :
        matches \in { { MatchFrom(items, 1, str, i) : i \in 1..(Len(str) + 1) } \ {<<>>} :
                      items \in {pattern.items}, str \in {s} } } : TRUE

\* [:\s\$]*([\d,]+\.?\d*) after a label
Amount(label) ==
    Pattern(<<Literal(label), Item(Space \cup {":", "$"}, 0, -1),
              Item(Digits \cup {","}, 1, -1), Item({"."}, 0, 1), Item(Digits, 0, -1)>>,
            3, 5)

\* Monthly\s+Payment[:\s\$]*([\d,]+\.?\d*)
MONTHLY_PAYMENT ==
    Pattern(<<Literal(<<"M", "o", "n", "t", "h", "l", "y">>), Item(Space, 1, -1)>>
            \o Amount(<<"P", "a", "y", "m", "e", "n", "t">>).items,
            5, 7)
\* monthly lease payment of\s*\$?([\d,]+\.?\d*)
MONTHLY_LEASE_PAYMENT_OF ==
    Pattern(<<Literal(<<"m", "o", "n", "t", "h", "l", "y", " ", "l", "e", "a",
                            "s", "e", " ", "p", "a", "y", "m", "e", "n", "t", " ", "o",
                            "f">>),
              Item(Space, 0, -1), Item({"$"}, 0, 1),
              Item(Digits \cup {","}, 1, -1), Item({"."}, 0, 1), Item(Digits, 0, -1)>>,
            4, 6)
\* security deposit[:\s\$]*([\d,]+\.?\d*)
SECURITY_DEPOSIT ==
    Amount(<<"s", "e", "c", "u", "r", "i", "t", "y", " ", "d", "e",
                            "p", "o", "s", "i", "t">>)
\* late fee[:\s\$]*([\d,]+\.?\d*)
LATE_FEE == Amount(<<"l", "a", "t", "e", " ", "f", "e", "e">>)
\* (\d{1,6})\s*miles\s*per\s*year
MILES_PER_YEAR ==
    Pattern(<<Item(Digits, 1, 6), Item(Space, 0, -1), Literal(<<"m", "i", "l", "e", "s">>),
              Item(Space, 0, -1), Literal(<<"p", "e", "r">>), Item(Space, 0, -1),
              Literal(<<"y", "e", "a", "r">>)>>,
            1, 1)
\* maximum of\s*(\d{1,6})\s*miles per year
MAXIMUM_OF_MILES ==
    Pattern(<<Literal(<<"m", "a", "x", "i", "m", "u", "m", " ", "o", "f">>),
              Item(Space, 0, -1), Item(Digits, 1, 6), Item(Space, 0, -1),
              Literal(<<"m", "i", "l", "e", "s", " ", "p", "e", "r", " ", "y",
                            "e", "a", "r">>)>>,
            3, 3)
\* charged at a rate of\s*\$?([\d\.]+)\s*per mile
CHARGED_AT_A_RATE ==
    Pattern(<<Literal(<<"c", "h", "a", "r", "g", "e", "d", " ", "a", "t", " ",
                            "a", " ", "r", "a", "t", "e", " ", "o", "f">>),
              Item(Space, 0, -1), Item({"$"}, 0, 1), Item(Digits \cup {"."}, 1, -1),
              Item(Space, 0, -1), Literal(<<"p", "e", "r", " ", "m", "i", "l", "e">>)>>,
            4, 4)
\* excess mileage.*?\$([\d\.]+)
EXCESS_MILEAGE ==
    Pattern(<<Literal(<<"e", "x", "c", "e", "s", "s", " ", "m", "i", "l", "e",
                            "a", "g", "e">>),
              LazyDots, Item({"$"}, 1, 1), Item(Digits \cup {"."}, 1, -1)>>,
            4, 4)

\* Early Termination[\s\S]*?([\s\S]{0,300}?)\n\d+\.
AnyLazy(hi) ==
    [lit |-> <<>>, chars |-> {}, negated |-> TRUE, lo |-> 0, hi |-> hi, lazy |-> TRUE]
EARLY_TERMINATION ==
    Pattern(<<Literal(<<"E", "a", "r", "l", "y", " ", "T", "e", "r", "m", "i",
                            "n", "a", "t", "i", "o", "n">>),
              AnyLazy(-1), AnyLazy(300), Item({"\n"}, 1, 1), Item(Digits, 1, -1),
              Item({"."}, 1, 1)>>,
            3, 3)

\* `a or b` of two searches: a capture that is not empty, or the second
OrSearch(a, b, s) ==
    CHOOSE m \in { IF first.found /\ first.group # <<>> THEN first ELSE regex_search(b, s) :
                   first \in {regex_search(a, s)} } : TRUE

\* int() of a string of digits
RECURSIVE DigitsValue(_)
DigitsValue(str) ==
    IF Len(str) = 0 THEN 0
    ELSE 10 * DigitsValue(SubSeq(str, 1, Len(str) - 1))
         + (CHOOSE d \in 0..9 : ToString(d) = str[Len(str)])

\* str(value).replace('$', '').replace(',', '').strip()
Bare(str) == Strip(SelectSeq(str, LAMBDA c : c \notin {"$", ","}))

\* float() takes the string: digits with at most one point and at least one
\* digit (the captures hold nothing but digits, commas and points)
IsFloat(str) ==
    /\ \A i \in DOMAIN str : str[i] \in Digits \cup {"."}
    /\ Cardinality({ i \in DOMAIN str : str[i] = "." }) <= 1
    /\ \E i \in DOMAIN str : str[i] \in Digits

\* float() of the string in hundredths; the texts carry at most two decimals
Hundredths(str) ==
    LET point == IF \E i \in DOMAIN str : str[i] = "."
                 THEN CHOOSE i \in DOMAIN str : str[i] = "." ELSE Len(str) + 1
        decimals == SubSeq(str, point + 1, Len(str)) \o <<"0", "0">>
    IN  100 * DigitsValue(SubSeq(str, 1, point - 1)) + DigitsValue(SubSeq(decimals, 1, 2))

\* What the scorer's patterns capture in the text, as the scorer model
\* takes it: money in whole dollars, the rate in cents per mile.
Captured(found, per) ==
    CHOOSE v \in { IF ~m.found THEN NoMatch
                   ELSE IF ~IsFloat(Bare(m.group)) THEN Unparsable
                   ELSE Hundredths(Bare(m.group)) \div per : m \in {found} } : TRUE
\* int(ma.replace(',', '')) of a capture of digits
Miles(found) ==
    CHOOSE v \in { IF ~m.found THEN NoMatch ELSE DigitsValue(m.group) : m \in {found} } : TRUE
Mentions(str, s) == regex_search(Pattern(<<Literal(str)>>, 1, 1), s).found
FairCaptures(t) ==
    [MonthlyPaymentLabel |-> Captured(regex_search(MONTHLY_PAYMENT, t.Terms), 100),
     MonthlyLeasePaymentOf |-> Captured(regex_search(MONTHLY_LEASE_PAYMENT_OF, t.Terms), 100),
     SecurityDeposit |-> Captured(regex_search(SECURITY_DEPOSIT, t.Terms), 100),
     LateFee |-> Captured(regex_search(LATE_FEE, t.Terms), 100),
     MilesPerYear |-> Miles(regex_search(MILES_PER_YEAR, t.Terms)),
     MaximumOfMiles |-> Miles(regex_search(MAXIMUM_OF_MILES, t.Terms)),
     ExcessMileageDollar |-> Captured(regex_search(EXCESS_MILEAGE, t.Terms), 1),
     ChargedAtRate |-> Captured(regex_search(CHARGED_AT_A_RATE, t.Terms), 1),
     EarlyTermination |-> \/ Mentions(<<"e", "a", "r", "l", "y", " ", "t", "e", "r", "m", "i", "n", "a", "t", "i", "o", "n">>, t.Terms)
                          \/ Mentions(<<"t", "e", "r", "m", "i", "n", "a", "t", "i", "o", "n", " ", "f", "e", "e">>, t.Terms)
                          \/ Mentions(<<"e", "a", "r", "l", "y", " ", "t", "e", "r", "m", "i", "n", "a", "t", "e">>, t.Terms),
     GapInsurance |-> Mentions(<<"g", "a", "p", " ", "i", "n", "s", "u", "r", "a", "n", "c", "e">>, t.Terms),
     Vin |-> Len(extract_vins_from_text(t.body)) > 0]

\* Python truthiness of a string-or-None, and `a or b`
Truthy(v) == v # NULL /\ v # ""
Or(a, b) == IF Truthy(a) THEN a ELSE b

\* d[k] = v, and d.setdefault(k, v), for a dict d
Put(d, k, v) == IF k \in DOMAIN d THEN [d EXCEPT ![k] = v] ELSE (k :> v) @@ d
Overwrite(d, k, v) == (k :> v) @@ d
SetDefault(d, k, v) == IF k \in DOMAIN d THEN d ELSE (k :> v) @@ d

\* What requests.get does: it raises (exc), or answers with a status code
\* and a body that is not JSON ("invalid"), a JSON value that is no object
\* ("array"), or a JSON object; the object's result list is "missing",
\* "not_list" or a "list" of rows.
Response(exc, status_code, json, results, rows) ==
    [exc |-> exc, status_code |-> status_code, json |-> json, results |-> results, rows |-> rows]
NotCalled == Response("not_called", 0, "", "", <<>>)
Answer(json, results, rows) == Response("", 200, json, results, rows)
HttpFailures ==
    {Response("Timeout", 0, "", "", <<>>),
     Response("ConnectionError", 0, "", "", <<>>),
     Response("", 503, "invalid", "", <<>>),
     Answer("invalid", "", <<>>),
     Answer("array", "", <<>>),
     Answer("object", "missing", <<>>),
     Answer("object", "not_list", <<>>),
     Answer("object", "list", <<>>)}

\* Rows of DecodeVinValues: every field is a string, "" when unknown.
ExtraDecodedKeys == <<"BodyClass", "VehicleType", "PlantCountry", "Manufacturer", "EngineModel">>
DecodedRow(make, model, year, body) ==
    [Make |-> make, Model |-> model, ModelYear |-> year, BodyClass |-> body,
     VehicleType |-> body, PlantCountry |-> "", Manufacturer |-> make, EngineModel |-> ""]
DecodeResponses ==
    HttpFailures \cup
    { Answer("object", "list", <<row>>) :
        row \in {DecodedRow("HONDA", "Accord", "2003", "Sedan/Saloon"),
                 DecodedRow("HONDA", "", "", ""),
                 DecodedRow("", "", "", "")} }
RecallResponses ==
    HttpFailures \cup {Answer("object", "list", <<[NHTSACampaignNumber |-> "20V314000"]>>)}

\* The outcome of a call: it raised, or it returned None or a value.
RaisedOutcome == [outcome |-> "raised"]
NoneOutcome == [outcome |-> "none"]
ValueOutcome(v) == [outcome |-> "value", value |-> v]

\* resp = requests.get(...); resp.json(), shared by the two lookups:
\* RequestException, a status other than 200 and ValueError give None.
FetchJson(resp) ==
    IF resp.exc # "" \/ resp.status_code # 200 \/ resp.json = "invalid" THEN NoneOutcome
    ELSE ValueOutcome(resp)

decode_vin_nhtsa(vin, resp) ==
    IF Len(vin) # VIN_LENGTH THEN NoneOutcome
    ELSE LET data == FetchJson(resp)
         IN  IF data.outcome = "none" THEN NoneOutcome
             ELSE IF resp.json # "object" THEN RaisedOutcome      \* data.get: AttributeError
             ELSE IF resp.results # "list" \/ Len(resp.rows) = 0 THEN NoneOutcome
             ELSE ValueOutcome(Put(resp.rows[1], "VIN", vin))

get_vehicle_recalls(make, model, year, resp) ==
    IF ~Truthy(make) \/ ~Truthy(model) \/ ~Truthy(year) THEN NoneOutcome
    ELSE LET data == FetchJson(resp)
         IN  IF data.outcome = "none" THEN NoneOutcome
             ELSE IF resp.json # "object" THEN RaisedOutcome      \* data.get: AttributeError
             ELSE IF resp.results = "missing" THEN ValueOutcome(<<>>)
             ELSE IF resp.results # "list" THEN NoneOutcome
             ELSE ValueOutcome(resp.rows)

\* The heuristic pass of extract_full_lease_fields.  A text is its
\* characters (body) and what the field patterns capture in it: Make is the
\* capture of "Make:\s*(..)", MakeLoose that of "Make[:\s]*(..)", and so on;
\* Names tells whether the party-name patterns match ("regex"), only the
\* scan of the lines after "Lessor"/"Lessee" finds a name ("nearby"), or
\* neither; Other whether the remaining patterns match.  Terms are the
\* characters of the part of the text that states the financial terms: the
\* payment, deposit, fee and mileage patterns are matched in it, and it
\* holds no VIN; their captures are strings (sequences of characters), None
\* being NoCapture.
HeuristicPass(t) ==
    LET vins == extract_vins_from_text(t.body)
    IN  [k \in HeuristicKeys |->
            CASE k = "make" -> Or(t.Make, t.MakeLoose)
              [] k = "model" -> Or(t.Model, t.ModelLoose)
              [] k = "year" -> Or(t.Year, t.YearLoose)
              [] k = "vins" -> vins
              [] k = "vin" -> IF Len(vins) > 0 THEN vins[1] ELSE NoneObj
              [] k = "monthly_payment" ->
                     OrSearch(MONTHLY_PAYMENT, MONTHLY_LEASE_PAYMENT_OF, t.Terms).group
              [] k = "security_deposit" -> regex_search(SECURITY_DEPOSIT, t.Terms).group
              [] k = "late_fee" -> regex_search(LATE_FEE, t.Terms).group
              [] k = "mileage_allowance_per_year" ->
                     OrSearch(MILES_PER_YEAR, MAXIMUM_OF_MILES, t.Terms).group
              [] k = "excess_mileage_rate" ->
                     OrSearch(CHARGED_AT_A_RATE, EXCESS_MILEAGE, t.Terms).group
              [] k = "early_termination_clause" -> regex_search(EARLY_TERMINATION, t.Terms).group
              [] k = "lessor_name" -> IF t.Names = "regex" THEN "Acme Leasing" ELSE NULL
              [] k = "lessee_name" -> IF t.Names = "regex" THEN "Jane Doe" ELSE NULL
              [] OTHER -> IF t.Other THEN "found" ELSE NULL]

\* for k in (...): if decoded.get(k): out.setdefault(k.lower(), decoded.get(k))
LowerKey ==
    [BodyClass |-> "bodyclass", VehicleType |-> "vehicletype", PlantCountry |-> "plantcountry",
     Manufacturer |-> "manufacturer", EngineModel |-> "enginemodel"]
RECURSIVE AddDecodedFields(_, _, _)
AddDecodedFields(o, decoded, n) ==
    IF n = 0 THEN o
    ELSE LET before == AddDecodedFields(o, decoded, n - 1)
             k == ExtraDecodedKeys[n]
         IN  IF Truthy(decoded[k]) THEN SetDefault(before, LowerKey[k], decoded[k]) ELSE before

\* The block `if use_nhtsa and out.get('vin')` of extract_full_lease_fields.
NhtsaMerge(o, dresp, rresp) ==
    LET d == decode_vin_nhtsa(o["vin"], dresp)
    IN  IF d.outcome = "raised"
        THEN [value |-> Put(o, "decoded_error", "nhtsa_lookup_failed"), recall_called |-> FALSE]
        ELSE IF d.outcome = "none" THEN [value |-> o, recall_called |-> FALSE]
        ELSE LET decoded == d.value
                 o1 == Put(o, "decoded", decoded)
                 o2 == SetDefault(o1, "make", Or(decoded["Make"], o1["make"]))
                 o3 == SetDefault(o2, "model", Or(decoded["Model"], o2["model"]))
                 o4 == SetDefault(o3, "year", Or(decoded["ModelYear"], o3["year"]))
                 o5 == AddDecodedFields(o4, decoded, Len(ExtraDecodedKeys))
                 make == Or(decoded["Make"], o5["make"])
                 model == Or(decoded["Model"], o5["model"])
                 year == Or(decoded["ModelYear"], o5["year"])
                 called == Truthy(make) /\ Truthy(model) /\ Truthy(year)
                 recalls == get_vehicle_recalls(make, model, year, rresp)
             IN  [value |-> IF called /\ recalls.outcome = "value" /\ Len(recalls.value) > 0
                            THEN Put(o5, "recalls", recalls.value)
                            ELSE o5,                    \* except Exception: pass
                  recall_called |-> called]

\* Two VINs.
V1 == <<"1", "H", "G", "C", "M", "8", "2", "6", "3", "3", "A", "0", "0", "4", "3", "5", "2">>
V2 == <<"J", "T", "D", "K", "N", "3", "D", "P", "3", "R", "3", "0", "0", "0", "0", "0", "0">>

\* What _call_llm returns, as a sequence of tokens: braces, commas, other
\* text, and "key": value members whose value is null or not.
Token(kind, key, isnull) == [kind |-> kind, key |-> key, isnull |-> isnull]
LB == Token("{", "", FALSE)
RB == Token("}", "", FALSE)
COMMA == Token(",", "", FALSE)
TEXT == Token("text", "", FALSE)

\* re.search(r"(\{[\s\S]*\})", resp_text): from the first "{" to the last "}"
BraceSpan(resp_text) ==
    LET opens == { i \in DOMAIN resp_text : resp_text[i] = LB }
        first == CHOOSE i \in opens : \A j \in opens : i <= j
        closes == { i \in DOMAIN resp_text : resp_text[i] = RB /\ i > first }
        last == CHOOSE i \in closes : \A j \in closes : j <= i
    IN  IF opens = {} \/ closes = {} THEN <<>> ELSE SubSeq(resp_text, first, last)

\* json.loads accepts "{" member ("," member)* "}" and "{}"
ParsesAsObject(span) ==
    /\ Len(span) >= 2 /\ span[1] = LB /\ span[Len(span)] = RB
    /\ Len(span) = 2 \/ Len(span) % 2 = 1
    /\ \A i \in 2..(Len(span) - 1) :
         IF i % 2 = 0 THEN span[i].kind = "pair" ELSE span[i] = COMMA

\* The value the output gives for a key.
LlmValue(k) == IF k = "vin" THEN V2 ELSE IF k = "vins" THEN <<V2>> ELSE "from LLM"

\* for k, v in parsed.items(): if v is not None: out[k] = v.  A key that
\* occurs twice has the value of its last member.
RECURSIVE MergeMembers(_, _, _)
MergeMembers(o, span, i) ==
    IF i >= Len(span) THEN o
    ELSE LET m == span[i]
             last == \A j \in (i + 1)..Len(span) : span[j].key # m.key
         IN  MergeMembers(IF m.kind = "pair" /\ last /\ ~m.isnull
                          THEN Put(o, m.key, LlmValue(m.key)) ELSE o,
                          span, i + 1)

LlmMergeAnySpan(o, resp_text) == MergeMembers(o, BraceSpan(resp_text), 2)

\* The block `if use_llm` of extract_full_lease_fields.
LlmMerge(o, resp_text) ==
    LET span == BraceSpan(resp_text)
    IN  IF Len(resp_text) = 0 \/ Len(span) = 0 \/ ~ParsesAsObject(span) THEN o
        ELSE MergeMembers(o, span, 2)

\* The closing scan for party names that are still missing.
NearbyNames(o, t) ==
    IF t.Names # "nearby" THEN o
    ELSE LET o1 == IF Truthy(o["lessor_name"]) THEN o ELSE Put(o, "lessor_name", "Acme Leasing LLC")
         IN  IF Truthy(o1["lessee_name"]) THEN o1 ELSE Put(o1, "lessee_name", "Jane Q Doe")

\* extract_full_lease_fields(text, use_nhtsa, use_llm); resp_text is what
\* _call_llm returns when use_llm is set.
extract_full_lease_fields(t, nh, dresp, rresp, ul, resp_text) ==
    LET o == HeuristicPass(t)
        merged == IF nh /\ o["vin"] # NoneObj THEN NhtsaMerge(o, dresp, rresp)
                  ELSE [value |-> o, recall_called |-> FALSE]
        enriched == IF ul THEN LlmMerge(merged.value, resp_text) ELSE merged.value
    IN  [raised |-> FALSE, value |-> NearbyNames(enriched, t),
         decode_called |-> nh /\ o["vin"] # NoneObj, recall_called |-> merged.recall_called]

VehicleInfoKeys ==
    {"make", "model", "year", "color", "vin", "license_plate", "odometer", "decoded", "recalls"}

\* extract_vehicle_info(text, use_nhtsa): nothing catches what the lookups raise.
extract_vehicle_info(t, nh, dresp, rresp) ==
    LET vins == extract_vins_from_text(t.body)
        result == [k \in VehicleInfoKeys |->
                     CASE k = "make" -> t.Make
                       [] k = "model" -> t.Model
                       [] k = "year" -> t.Year
                       [] k \in {"vin", "decoded", "recalls"} -> NoneObj
                       [] OTHER -> IF t.Other THEN "found" ELSE NULL]
        r1 == IF Len(vins) > 0 THEN [result EXCEPT !["vin"] = vins[1]] ELSE result
        called == nh /\ Len(vins) > 0
        d == decode_vin_nhtsa(vins[1], dresp)
    IN  IF ~called
        THEN [raised |-> FALSE, value |-> r1, decode_called |-> FALSE, recall_called |-> FALSE]
        ELSE IF d.outcome = "raised"
        THEN [raised |-> TRUE, value |-> NoneObj, decode_called |-> TRUE, recall_called |-> FALSE]
        ELSE IF d.outcome = "none"
        THEN [raised |-> FALSE, value |-> r1, decode_called |-> TRUE, recall_called |-> FALSE]
        ELSE LET decoded == d.value
                 r2 == [r1 EXCEPT !["decoded"] = decoded]
                 make == Or(decoded["Make"], r2["make"])
                 model == Or(decoded["Model"], r2["model"])
                 year == Or(decoded["ModelYear"], r2["year"])
                 wanted == Truthy(make) /\ Truthy(model) /\ Truthy(year)
                 recalls == get_vehicle_recalls(make, model, year, rresp)
             IN  IF wanted /\ recalls.outcome = "raised"
                 THEN [raised |-> TRUE, value |-> NoneObj, decode_called |-> TRUE, recall_called |-> TRUE]
                 ELSE [raised |-> FALSE,
                       value |-> IF wanted /\ recalls.outcome = "value" /\ Len(recalls.value) > 0
                                 THEN [r2 EXCEPT !["recalls"] = recalls.value]
                                 ELSE r2,
                       decode_called |-> TRUE, recall_called |-> wanted]

(***************************************************************************)
(* Input texts: up to MaxTokens tokens - VINs, near-VINs - between         *)
(* separators, and the combinations of what the field patterns capture.    *)
(***************************************************************************)
MaxTokens == 2

VinTokens ==
    {V1, V2,
     [i \in DOMAIN V1 |-> LowerChar(V1[i])],
     [V1 EXCEPT ![2] = "I"], [V2 EXCEPT ![4] = "o"], [V2 EXCEPT ![3] = "Q"],
     V1 \o <<"7">>, SubSeq(V1, 1, VIN_LENGTH - 1)}
Separators == {<<" ">>, <<"_">>}

RECURSIVE TokenTexts(_)
TokenTexts(n) ==
    IF n = 1 THEN VinTokens
    ELSE { b \o sep \o tok : b \in TokenTexts(n - 1), sep \in Separators, tok \in VinTokens }
\* three VINs in a row, some of them the same up to case
RepeatTexts ==
    LET vins == {V1, V2, [i \in DOMAIN V1 |-> LowerChar(V1[i])]}
    IN  { a \o sep \o b \o sep \o c : a \in vins, b \in vins, c \in vins, sep \in {<<" ">>, <<"-">>} }
Bodies == {<<>>} \cup RepeatTexts \cup UNION { TokenTexts(n) : n \in 1..MaxTokens }

\* (strict capture, loose capture) of one field
Captures(x) == {<<NULL, NULL>>, <<NULL, x>>, <<x, x>>}
LeaseText(body, make, model, year, names, other) ==
    [body |-> body, Make |-> make[1], MakeLoose |-> make[2], Model |-> model[1],
     ModelLoose |-> model[2], Year |-> year[1], YearLoose |-> year[2],
     Names |-> names, Other |-> other, Terms |-> <<>>]
LeaseTexts ==
    { LeaseText(body, <<NULL, NULL>>, <<NULL, NULL>>, <<NULL, NULL>>, "none", FALSE) : body \in Bodies }
    \cup { LeaseText(body, make, model, year, names, other) :
             body \in {<<>>, V1}, make \in Captures("Honda"), model \in Captures("Civic"),
             year \in Captures("2021"), names \in {"regex", "nearby", "none"}, other \in BOOLEAN }

MaxMembers == 2
LlmKeys == {"make", "vin", "notes"}

\* "{" members "}" with n members
RECURSIVE ObjectTexts(_)
ObjectTexts(n) ==
    IF n = 0 THEN {<<LB, RB>>}
    ELSE LET members == { Token("pair", k, isnull) : k \in LlmKeys, isnull \in BOOLEAN }
         IN  IF n = 1 THEN { <<LB, m, RB>> : m \in members }
             ELSE { SubSeq(t, 1, Len(t) - 1) \o <<COMMA, m, RB>> : t \in ObjectTexts(n - 1), m \in members }

\* Nothing, text without an object, an object alone or inside other text,
\* an object followed by text and a second object, and texts whose brace
\* span is no object.
LlmTexts ==
    LET objects == UNION { ObjectTexts(n) : n \in 0..MaxMembers }
    IN  {<<>>, <<TEXT>>, <<LB>>, <<RB, TEXT, LB>>, <<LB, TEXT, RB>>, <<LB, COMMA, RB>>}
        \cup objects
        \cup { <<TEXT>> \o t \o <<TEXT>> : t \in objects }
        \cup { t \o <<TEXT, RB>> : t \in objects }
        \cup { <<LB>> \o t : t \in objects }
        \cup { t \o <<TEXT, LB, Token("pair", "notes", FALSE), RB>> : t \in objects }
        \cup { SubSeq(t, 1, Len(t) - 1) \o <<Token("pair", "make", FALSE), RB>> : t \in objects \ {<<LB, RB>>} }

ExtractInit ==
    /\ text \in LeaseTexts
    /\ use_nhtsa \in BOOLEAN
    /\ nhtsa = [decode |-> NotCalled, recall |-> NotCalled]
    /\ use_llm = FALSE /\ llm = <<>>
    /\ out = NotReturned /\ vinfo = NotReturned /\ advice = NotReturned
    /\ request_args = NULL /\ nhtsa_calls = <<>>
    /\ FairIdle /\ JobIdle /\ RagIdle

\* The answers to a lookup that is made, or the mark of one that is not.
Asked(called, responses) == IF called THEN responses ELSE {NotCalled}

\* a request that is sent has an answer, one that is not sent has none
Answers(r, dresp, rresp) ==
    /\ (dresp = NotCalled) <=> ~r.decode_called
    /\ (rresp = NotCalled) <=> ~r.recall_called

\* One call of extract_full_lease_fields on the text; the two lookups answer
\* in any of the ways an HTTP request can.
ExtractFullLeaseFields ==
    /\ out = NotReturned /\ vinfo = NotReturned /\ advice = NotReturned
    /\ \E dresp \in Asked(extract_full_lease_fields(text, use_nhtsa, NotCalled, NotCalled,
                                                     FALSE, <<>>).decode_called,
                           DecodeResponses) :
       \E rresp \in Asked(extract_full_lease_fields(text, use_nhtsa, dresp, NotCalled,
                                                     FALSE, <<>>).recall_called,
                           RecallResponses) :
       \E resp_text \in (IF use_llm THEN LlmTexts ELSE {<<>>}) :
         LET r == extract_full_lease_fields(text, use_nhtsa, dresp, rresp, use_llm, resp_text)
         IN  /\ out' = [returned |-> TRUE, raised |-> r.raised, value |-> r.value]
             /\ nhtsa' = [decode |-> dresp, recall |-> rresp]
             /\ llm' = resp_text
    /\ UNCHANGED <<text, use_nhtsa, use_llm, vinfo, advice, request_args, nhtsa_calls, fairVars, jobVars, ragVars>>

\* One call of extract_vehicle_info on the text.
ExtractVehicleInfo ==
    /\ out = NotReturned /\ vinfo = NotReturned /\ advice = NotReturned
    /\ \E dresp \in Asked(extract_vehicle_info(text, use_nhtsa, NotCalled, NotCalled).decode_called,
                           DecodeResponses) :
       \E rresp \in Asked(extract_vehicle_info(text, use_nhtsa, dresp, NotCalled).recall_called,
                           RecallResponses) :
         LET r == extract_vehicle_info(text, use_nhtsa, dresp, rresp)
         IN  /\ vinfo' = [returned |-> TRUE, raised |-> r.raised, value |-> r.value]
             /\ nhtsa' = [decode |-> dresp, recall |-> rresp]
    /\ UNCHANGED <<text, use_nhtsa, use_llm, llm, out, advice, request_args, nhtsa_calls, fairVars, jobVars, ragVars>>

ExtractNext ==
    \/ ExtractFullLeaseFields
    \/ ExtractVehicleInfo

SpecExtract == ExtractInit /\ [][ExtractNext]_vars

\* The first place in text.upper() where v stands as a VIN candidate.
FirstSeen(s, v) ==
    LET places == { p \in DOMAIN s : MatchAt(s, p) /\ \A i \in 1..VIN_LENGTH : UpperAt(s, p + i - 1) = v[i] }
    IN  CHOOSE p \in places : \A q \in places : p <= q

VinListOk(vins, s) ==
    /\ \A i \in DOMAIN vins :
         /\ Len(vins[i]) = 17
         /\ \A j \in DOMAIN vins[i] :
              /\ vins[i][j] \in WordChars \ {"_", "I", "O", "Q"}
              /\ UpperChar(vins[i][j]) = vins[i][j]
    /\ \A i, j \in DOMAIN vins : i < j => vins[i] # vins[j] /\ FirstSeen(s, vins[i]) < FirstSeen(s, vins[j])

DecodedOk == decode_vin_nhtsa(V1, nhtsa.decode).outcome = "value"
DecodeFailed == nhtsa.decode # NotCalled /\ ~DecodedOk
RecallFailed ==
    /\ nhtsa.recall # NotCalled
    /\ LET recalls == get_vehicle_recalls("x", "x", "x", nhtsa.recall)
       IN  recalls.outcome = "value" => Len(recalls.value) = 0

\* C8: after a successful decode, each of make, model and year that the
\* heuristic pass left None holds the decoded Make, Model or ModelYear.
C8_DecodedFillsNull ==
    (out.returned /\ use_nhtsa /\ DecodedOk) =>
        \A f \in {<<"make", "Make">>, <<"model", "Model">>, <<"year", "ModelYear">>} :
            (HeuristicPass(text)[f[1]] = NULL /\ Truthy(nhtsa.decode.rows[1][f[2]]))
                => out.value[f[1]] = nhtsa.decode.rows[1][f[2]]

NonNull(k, v) ==
    IF k = "vins" THEN TRUE
    ELSE IF k = "vin" THEN v # NoneObj
    ELSE IF k \in {"monthly_payment", "security_deposit", "late_fee",
                   "mileage_allowance_per_year", "excess_mileage_rate",
                   "early_termination_clause"} THEN v # NoCapture
    ELSE v # NULL

\* C9: with the lookups enabled, every field that is not None after the
\* heuristic pass has the heuristic value in the returned dict, whatever
\* the decode returns.
C9_HeuristicsKept ==
    (out.returned /\ use_nhtsa) =>
        \A k \in HeuristicKeys :
            NonNull(k, HeuristicPass(text)[k]) => out.value[k] = HeuristicPass(text)[k]

\* The decode knows a make, and the text gave another.
C9_Witness ==
    /\ out.returned /\ use_nhtsa /\ DecodedOk
    /\ "decoded" \in DOMAIN out.value
    /\ out.value["decoded"]["Make"] = "HONDA"
    /\ HeuristicPass(text)["make"] = "Honda"
    /\ HeuristicPass(text)["model"] = NULL

\* C10: when the decode or the recall lookup fails, both functions return
\* normally, the failed lookup leaves no decoded/recalls value, and every
\* heuristic field is what it is with the lookups disabled.
C10_LookupFailureDegrades ==
    /\ (out.returned /\ (DecodeFailed \/ RecallFailed)) =>
          /\ ~out.raised
          /\ DecodeFailed => "decoded" \notin DOMAIN out.value
          /\ "recalls" \notin DOMAIN out.value
          /\ \A k \in HeuristicKeys :
               out.value[k] = extract_full_lease_fields(text, FALSE, NotCalled, NotCalled, FALSE, <<>>).value[k]
    /\ (vinfo.returned /\ (DecodeFailed \/ RecallFailed)) =>
          /\ ~vinfo.raised
          /\ DecodeFailed => vinfo.value["decoded"] = NoneObj
          /\ vinfo.value["recalls"] = NoneObj
          /\ \A k \in VehicleInfoKeys \ {"decoded", "recalls"} :
               vinfo.value[k] = extract_vehicle_info(text, FALSE, NotCalled, NotCalled).value[k]

(***************************************************************************)
(* extract_full_lease_fields(text, use_nhtsa, use_llm=True)                *)
(***************************************************************************)
LlmInit ==
    /\ text \in { LeaseText(body, make, <<NULL, NULL>>, <<NULL, NULL>>, "none", FALSE) :
                    body \in {<<>>, V1}, make \in {<<NULL, NULL>>, <<"Honda", "Honda">>} }
    /\ use_nhtsa \in BOOLEAN
    /\ nhtsa = [decode |-> NotCalled, recall |-> NotCalled]
    /\ use_llm = TRUE /\ llm = <<>>
    /\ out = NotReturned /\ vinfo = NotReturned /\ advice = NotReturned
    /\ request_args = NULL /\ nhtsa_calls = <<>>
    /\ FairIdle /\ JobIdle /\ RagIdle

LlmNext == ExtractFullLeaseFields

SpecLlm == LlmInit /\ [][LlmNext]_vars

\* The keys the function itself writes: the heuristic fields, the NHTSA
\* fields and the two error marks.
FieldSchema ==
    HeuristicKeys \cup {"decoded", "recalls", "decoded_error", "llm_error"}
                  \cup { LowerKey[ExtraDecodedKeys[i]] : i \in DOMAIN ExtraDecodedKeys }

\* C11: whatever the decode, the recall lookup and the generated JSON object
\* hold, the returned dict has no key outside the field schema.
C11_KeysWithinSchema == out.returned => DOMAIN out.value \subseteq FieldSchema

\* The heuristic-only result for the same text and the same NHTSA answers.
WithoutLlm == extract_full_lease_fields(text, use_nhtsa, nhtsa.decode, nhtsa.recall, FALSE, <<>>)

\* C12: output that is empty, has no brace-delimited object or does not parse
\* as a JSON object is discarded: the call does not raise and returns what
\* it returns without the LLM.
C12_BadOutputDiscarded ==
    (out.returned /\ use_llm /\ ~ParsesAsObject(BraceSpan(llm))) =>
        ~out.raised /\ out.value = WithoutLlm.value

\* Output with braces around something that is no object was discarded.
C12_Witness ==
    /\ out.returned /\ use_llm /\ use_nhtsa
    /\ Len(BraceSpan(llm)) > 3 /\ ~ParsesAsObject(BraceSpan(llm))
    /\ \E i \in DOMAIN llm : llm[i].kind = "pair" /\ ~llm[i].isnull
    /\ "decoded" \in DOMAIN out.value


\* The first balanced brace-delimited span of the output: from the first "{"
\* to the "}" that closes it.
FirstBalanced(resp_text) ==
    LET opens == { i \in DOMAIN resp_text : resp_text[i] = LB }
        first == CHOOSE i \in opens : \A j \in opens : i <= j
        Count(tok, i) == Cardinality({ j \in first..i : resp_text[j] = tok })
        closes == { i \in DOMAIN resp_text :
                      i > first /\ resp_text[i] = RB /\ Count(LB, i) = Count(RB, i) }
        close == CHOOSE i \in closes : \A j \in closes : i <= j
    IN  IF opens = {} \/ closes = {} THEN <<>> ELSE SubSeq(resp_text, first, close)

\* C21: when the first balanced brace-delimited object of the generated
\* output is a valid JSON object, its non-null fields are merged into the
\* result, whatever text (with braces or not) follows it.
C21_FirstObjectMerged ==
    (out.returned /\ use_llm /\ ParsesAsObject(FirstBalanced(llm))) =>
        \A i \in DOMAIN FirstBalanced(llm) :
            LET m == FirstBalanced(llm)[i]
            IN  (m.kind = "pair" /\ ~m.isnull
                   /\ \A j \in (i + 1)..Len(FirstBalanced(llm)) : FirstBalanced(llm)[j].key # m.key)
                => (m.key \in DOMAIN out.value /\ out.value[m.key] = LlmValue(m.key))

\* C21, for an output whose first object is followed by nothing that holds
\* a closing brace.
C21_OnlyObjectMerged ==
    (out.returned /\ use_llm /\ ParsesAsObject(FirstBalanced(llm))
       /\ BraceSpan(llm) = FirstBalanced(llm)) =>
        \A i \in DOMAIN FirstBalanced(llm) :
            LET m == FirstBalanced(llm)[i]
            IN  (m.kind = "pair" /\ ~m.isnull
                   /\ \A j \in (i + 1)..Len(FirstBalanced(llm)) : FirstBalanced(llm)[j].key # m.key)
                => (m.key \in DOMAIN out.value /\ out.value[m.key] = LlmValue(m.key))


(***************************************************************************)
(* SpecTerms: the extractor and the scorer on texts that state financial   *)
(* terms in one wording or another.                                        *)
(***************************************************************************)
MonthlyClauses ==
    {<<>>, <<"m", "o", "n", "t", "h", "l", "y", " ", "l", "e", "a", "s", "e", " ", "p", "a",
       "y", "m", "e", "n", "t", " ", "o", "f", " ", "$", "3", "5", "0", ".", "0", "0">>,
     <<"M", "o", "n", "t", "h", "l", "y", " ", "P", "a", "y", "m", "e", "n", "t", ":", " ", "$", "3", "5", "0", ".", "0", "0">>,
     <<"m", "o", "n", "t", "h", "l", "y", " ", " ", "p", "a", "y", "m", "e", "n", "t", " ", "$", "2", ",", "5", "0", "0", ".", "0", "0">>}
DepositClauses ==
    {<<>>, <<"s", "e", "c", "u", "r", "i", "t", "y", " ", "d", "e", "p", "o", "s", "i", "t", " ", "o", "f", " ", "$", "7", "0", "0", ".", "0", "0">>,
     <<"S", "e", "c", "u", "r", "i", "t", "y", " ", "D", "e", "p", "o", "s", "i", "t",
       ":", " ", "$", "7", "0", "0", ".", "0", "0">>,
     <<"s", "e", "c", "u", "r", "i", "t", "y", " ", "d", "e", "p", "o", "s", "i", "t", " ", "$", "1", ",", "2", "0", "0">>}
MileageClauses ==
    {<<>>, <<"m", "a", "x", "i", "m", "u", "m", " ", "o", "f", " ", "1", "2", "0", "0", "0", " ", "m", "i", "l", "e", "s", " ", "p", "e", "r", " ", "y", "e", "a", "r">>,
     <<"9", "0", "0", "0", " ", "m", "i", "l", "e", "s", " ", "p", "e", "r", " ", "y",
       "e", "a", "r">>}
ExcessClauses ==
    {<<>>, <<"c", "h", "a", "r", "g", "e", "d", " ", "a", "t", " ", "a", " ", "r", "a", "t",
       "e", " ", "o", "f", " ", "$", "0", ".", "2", "0", " ", "p", "e", "r", " ", "m", "i",
       "l", "e">>,
     <<"e", "x", "c", "e", "s", "s", " ", "m", "i", "l", "e", "a", "g", "e", " ", "f",
       "e", "e", " ", "o", "f", " ", "$", "0", ".", "3", "0", " ", "p", "e", "r", " ", "m",
       "i", "l", "e">>,
     <<"e", "x", "c", "e", "s", "s", " ", "m", "i", "l", "e", "a", "g", "e", " ", "f",
       "e", "e", " ", "o", "f", " ", "$", "0", ".", "3", "0", " ", "p", "e", "r", " ", "m",
       "i", "l", "e", ".", " ",
       "c", "h", "a", "r", "g", "e", "d", " ", "a", "t", " ", "a", " ", "r", "a", "t",
       "e", " ", "o", "f", " ", "$", "0", ".", "2", "0", " ", "p", "e", "r", " ", "m", "i",
       "l", "e">>}

\* the clauses as sentences
Sentences(clauses) ==
    LET sentence[i \in 0..Len(clauses)] ==
            IF i = 0 THEN <<>>
            ELSE IF Len(clauses[i]) = 0 THEN sentence[i - 1]
            ELSE sentence[i - 1] \o clauses[i] \o <<".", " ">>
    IN  sentence[Len(clauses)]
TermsTexts ==
    { [LeaseText(<<>>, <<NULL, NULL>>, <<NULL, NULL>>, <<NULL, NULL>>, "none", FALSE)
          EXCEPT !.Terms = Sentences(<<m, d, a, e>>)] :
        m \in MonthlyClauses, d \in DepositClauses, a \in MileageClauses, e \in ExcessClauses }

TermsInit ==
    /\ text \in TermsTexts
    /\ ftext = FairCaptures(text)
    /\ vehicle_info \in {NoVehicleInfo} \cup { v \in VehicleInfos : Len(v.recalls) <= 1 }
    /\ fairness = NotReturned
    /\ use_nhtsa \in BOOLEAN
    /\ nhtsa = [decode |-> NotCalled, recall |-> NotCalled]
    /\ use_llm = FALSE /\ llm = <<>>
    /\ out = NotReturned /\ vinfo = NotReturned /\ advice = NotReturned
    /\ request_args = NULL /\ nhtsa_calls = <<>>
    /\ JobIdle /\ RagIdle

TermsNext == ExtractFullLeaseFields \/ AnalyzeFairness
SpecTerms == TermsInit /\ [][TermsNext]_vars

\* the text holds the four phrases
HoldsThePhrases ==
    /\ Mentions(<<"m", "o", "n", "t", "h", "l", "y", " ", "l", "e", "a", "s", "e", " ", "p", "a",
       "y", "m", "e", "n", "t", " ", "o", "f", " ", "$", "3", "5", "0", ".", "0", "0">>, text.Terms)
    /\ Mentions(<<"s", "e", "c", "u", "r", "i", "t", "y", " ", "d", "e", "p", "o", "s", "i", "t", " ", "o", "f", " ", "$", "7", "0", "0", ".", "0", "0">>, text.Terms)
    /\ Mentions(<<"m", "a", "x", "i", "m", "u", "m", " ", "o", "f", " ", "1", "2", "0", "0", "0", " ", "m", "i", "l", "e", "s", " ", "p", "e", "r", " ", "y", "e", "a", "r">>, text.Terms)
    /\ Mentions(<<"c", "h", "a", "r", "g", "e", "d", " ", "a", "t", " ", "a", " ", "r", "a", "t",
       "e", " ", "o", "f", " ", "$", "0", ".", "2", "0", " ", "p", "e", "r", " ", "m", "i",
       "l", "e">>, text.Terms)

\* the Python number whose value is h hundredths, where a string is its
\* characters
IsNumber(v, h) == Len(v) = 2 /\ v[1] = "float" /\ v[2] = h

\* C14: for a text with the phrases "monthly lease payment of $350.00",
\* "security deposit of $700.00", "maximum of 12000 miles per year" and
\* "charged at a rate of $0.20 per mile", the extractor returns the numbers
\* 350.0, 700.0, 12000 and 0.20, and the scorer raises no deposit flag, gives
\* the mileage and excess-rate green flags and scores at least 7.
C14_PhrasesExtractedAndScored ==
    /\ (out.returned /\ HoldsThePhrases) =>
          /\ IsNumber(out.value["monthly_payment"], 35000)
          /\ IsNumber(out.value["security_deposit"], 70000)
          /\ IsNumber(out.value["mileage_allowance_per_year"], 1200000)
          /\ IsNumber(out.value["excess_mileage_rate"], 20)
    /\ (fairness.returned /\ HoldsThePhrases /\ NoRecalls) =>
          /\ \A i \in DOMAIN fairness.red_flags :
                 fairness.red_flags[i].clause # "High security deposit"
          /\ \E i \in DOMAIN fairness.green_flags :
                 fairness.green_flags[i] = "Generous mileage allowance"
          /\ \E i \in DOMAIN fairness.green_flags :
                 fairness.green_flags[i] = "Reasonable excess mileage rate"
          /\ fairness.fairness_score >= 7

\* C14, the scorer's part alone.
C14_PhrasesScored ==
    (fairness.returned /\ HoldsThePhrases /\ NoRecalls) =>
        /\ \A i \in DOMAIN fairness.red_flags :
               fairness.red_flags[i].clause # "High security deposit"
        /\ fairness.green_flags =
               <<"Affordable monthly payment", "Generous mileage allowance",
                 "Reasonable excess mileage rate", "No recalls found">>
        /\ fairness.fairness_score = 7

\* C14, what the extractor returns for the phrases: three strings and None.
C14_PhrasesExtractedAsText ==
    (out.returned /\ HoldsThePhrases) =>
        /\ out.value["monthly_payment"] = <<"3", "5", "0", ".", "0", "0">>
        /\ out.value["security_deposit"] = NoCapture
        /\ out.value["mileage_allowance_per_year"] = <<"1", "2", "0", "0", "0">>
        /\ out.value["excess_mileage_rate"] = <<"0", ".", "2", "0">>

\* The values analyze_contract_fairness computes from its captures
\* (lines 50-60): money in whole dollars, the rate in cents per mile.
ScorerValues(t) ==
    [monthly_payment |-> safe_float(FirstFound(t.MonthlyPaymentLabel, t.MonthlyLeasePaymentOf)),
     security_deposit |-> safe_float(t.SecurityDeposit),
     late_fee |-> safe_float(t.LateFee),
     mileage_allowance_per_year |-> FirstFound(t.MilesPerYear, t.MaximumOfMiles),
     excess_mileage_rate |-> safe_float(FirstFound(t.ExcessMileageDollar, t.ChargedAtRate))]

\* The number a string returned by the extractor stands for, in the
\* scorer's units; NoMatch for None and for a string that is no number.
ValueOf(k, v) ==
    IF v = NoCapture THEN NoMatch
    ELSE IF k = "mileage_allowance_per_year" THEN DigitsValue(v)
    ELSE IF ~IsFloat(Bare(v)) THEN NoMatch
    ELSE Hundredths(Bare(v)) \div (IF k = "excess_mileage_rate" THEN 1 ELSE 100)

Agree(k) == ScorerValues(ftext)[k] = ValueOf(k, out.value[k])

\* C26: for every text, the values the scorer uses for monthly payment,
\* security deposit, late fee, mileage allowance and excess-mileage rate
\* are the values extract_full_lease_fields returns for the same text.
C26_ScorerUsesExtractedValues ==
    (out.returned /\ fairness.returned) =>
        \A k \in {"monthly_payment", "security_deposit", "late_fee",
                  "mileage_allowance_per_year", "excess_mileage_rate"} : Agree(k)

\* C26 without the excess-mileage rate.
C26_OtherValuesAgree ==
    (out.returned /\ fairness.returned) =>
        \A k \in {"monthly_payment", "security_deposit", "late_fee",
                  "mileage_allowance_per_year"} : Agree(k)

\* C26 for the excess-mileage rate of a text in which at most one of the
\* two patterns matches.
C26_RateAgreesWithOnePhrase ==
    (out.returned /\ fairness.returned
       /\ (ftext.ExcessMileageDollar = NoMatch \/ ftext.ChargedAtRate = NoMatch))
        => Agree("excess_mileage_rate")

\* Both functions ran on a text whose single rate phrase they read alike.
C26_OnePhraseReached ==
    /\ out.returned /\ fairness.returned
    /\ ftext.ExcessMileageDollar = 30 /\ ftext.ChargedAtRate = NoMatch
    /\ ftext.MonthlyLeasePaymentOf = 350
    /\ Agree("excess_mileage_rate")


(***************************************************************************)
(*                        NEGOTIATION ADVICE                               *)
(* enhanced_api_server.get_negotiation_advice: the fields are extracted    *)
(* with use_nhtsa=True, use_llm=False, and each field that is there adds   *)
(* its entry of the static table.  An entry is represented by its 'item'.  *)
(***************************************************************************)
SUMMARY ==
    "Identify negotiable items and ask for reductions on high fees, increased mileage allowance, and clearer termination terms."

\* Python truthiness of a captured string or None
TruthyText(v) == v # NoCapture /\ v # <<>>

\* the `if data.get(field): items.append({...})` blocks, in the order of the code
ADVICE_TABLE ==
    <<[field |-> "monthly_payment", item |-> "Monthly Payment"],
      [field |-> "security_deposit", item |-> "Security Deposit"],
      [field |-> "mileage_allowance_per_year", item |-> "Mileage Allowance"],
      [field |-> "excess_mileage_rate", item |-> "Excess Mileage Rate"],
      [field |-> "late_fee", item |-> "Late Fee"],
      [field |-> "early_termination_clause", item |-> "Early Termination"]>>

AppendAlways(items, data, row) == Append(items, row.item)
\* if data.get(field): items.append(...)
AppendItem(items, data, row) ==
    IF TruthyText(data[row.field]) THEN Append(items, row.item) ELSE items

RECURSIVE AdviceItems(_, _)
AdviceItems(data, n) ==
    IF n = 0 THEN <<>>
    ELSE AppendItem(AdviceItems(data, n - 1), data, ADVICE_TABLE[n])

\* extract_full_lease_fields does not raise, so the fallback to
\* extract_datapoints is never taken; data has no key 'monthly'.
get_negotiation_advice(t, dresp, rresp) ==
    CHOOSE result \in
      { [returned |-> TRUE, raised |-> FALSE,
         negotiable_items |-> AdviceItems(r.value, Len(ADVICE_TABLE)),
         summary |-> SUMMARY,
         data |-> r.value,
         decode_called |-> r.decode_called, recall_called |-> r.recall_called] :
        r \in {extract_full_lease_fields(t, TRUE, dresp, rresp, FALSE, <<>>)} } : TRUE

LateFeeClauses == {<<>>, <<"l", "a", "t", "e", " ", "f", "e", "e", ":", " ", "$", "2", "5">>}
TerminationClauses ==
    {<<>>, <<"E", "a", "r", "l", "y", " ", "T", "e", "r", "m", "i", "n", "a", "t", "i", "o", "n", "\n", "5">>,
     <<"E", "a", "r", "l", "y", " ", "T", "e", "r", "m", "i", "n", "a", "t", "i", "o", "n", " ", "f", "e", "e", " ", "a", "p", "p", "l", "i", "e", "s", "\n", "5">>}
AdviceTexts ==
    { [LeaseText(body, <<NULL, NULL>>, <<NULL, NULL>>, <<NULL, NULL>>, "none", FALSE)
          EXCEPT !.Terms = Sentences(<<m, d, a, e, l, c>>)] :
        body \in {<<>>, V1},
        m \in {<<>>, <<"M", "o", "n", "t", "h", "l", "y", " ", "P", "a", "y", "m", "e", "n", "t", ":", " ", "$", "3", "5", "0", ".", "0", "0">>},
        d \in {<<>>, <<"S", "e", "c", "u", "r", "i", "t", "y", " ", "D", "e", "p", "o", "s", "i", "t", ":", " ", "$", "7", "0", "0", ".", "0", "0">>},
        a \in {<<>>, <<"9", "0", "0", "0", " ", "m", "i", "l", "e", "s", " ", "p", "e", "r", " ", "y", "e", "a", "r">>},
        e \in {<<>>, <<"e", "x", "c", "e", "s", "s", " ", "m", "i", "l", "e", "a", "g", "e", " ", "f", "e", "e", " ", "o", "f", " ", "$", "0", ".", "3", "0", " ", "p", "e", "r", " ", "m", "i", "l", "e">>},
        l \in LateFeeClauses, c \in TerminationClauses }

AdviceInit ==
    /\ text \in AdviceTexts
    /\ use_nhtsa = TRUE
    /\ nhtsa = [decode |-> NotCalled, recall |-> NotCalled]
    /\ use_llm = FALSE /\ llm = <<>>
    /\ out = NotReturned /\ vinfo = NotReturned /\ advice = NotReturned
    /\ request_args = NULL /\ nhtsa_calls = <<>>
    /\ FairIdle /\ JobIdle /\ RagIdle

\* One call of get_negotiation_advice on the text; the requests it makes
\* are answered in any of the ways an HTTP request can.
GetNegotiationAdvice ==
    /\ advice = NotReturned
    /\ \E dresp \in Asked(get_negotiation_advice(text, NotCalled, NotCalled).decode_called,
                           DecodeResponses) :
       \E rresp \in Asked(get_negotiation_advice(text, dresp, NotCalled).recall_called,
                           RecallResponses) :
         /\ advice' = get_negotiation_advice(text, dresp, rresp)
         /\ nhtsa' = [decode |-> dresp, recall |-> rresp]
    /\ UNCHANGED <<text, use_nhtsa, use_llm, llm, out, vinfo, request_args, nhtsa_calls,
                   fairVars, jobVars, ragVars>>

AdviceNext == GetNegotiationAdvice
SpecAdvice == AdviceInit /\ [][AdviceNext]_vars

\* the items of the table's rows whose field passes the test, in table order
ItemsWhere(Test(_)) ==
    LET rows == SelectSeq(ADVICE_TABLE, LAMBDA row : Test(advice.data[row.field]))
    IN  [i \in DOMAIN rows |-> rows[i].item]
IsNonNull(v) == v # NoCapture

\* C17: the advice holds exactly one entry, in the fixed order and never
\* twice, for each of the six fields that is present and non-null in the
\* extracted fields, none for an absent field, and the fixed summary.
C17_ItemPerNonNullField ==
    advice.returned =>
        /\ advice.negotiable_items = ItemsWhere(IsNonNull)
        /\ advice.summary = SUMMARY

\* C17, for the fields whose extracted value is neither null nor empty.
C17_ItemPerNonEmptyField ==
    advice.returned =>
        /\ advice.negotiable_items = ItemsWhere(TruthyText)
        /\ \A i, j \in DOMAIN advice.negotiable_items :
               advice.negotiable_items[i] = advice.negotiable_items[j] => i = j
        /\ advice.summary = SUMMARY

\* some fields with an entry, in order, and some without
C17_Witness ==
    /\ advice.returned
    /\ advice.negotiable_items = <<"Security Deposit", "Late Fee", "Early Termination">>
    /\ advice.data["monthly_payment"] = NoCapture

\* C18: get_negotiation_advice calls no external collaborator, changes no
\* state and returns an advice for every text.
C18_AdviceIsPure ==
    [][advice' # advice =>
          /\ advice'.returned /\ ~advice'.raised
          /\ ~advice'.decode_called /\ ~advice'.recall_called
          /\ nhtsa'.decode = NotCalled /\ nhtsa'.recall = NotCalled
          /\ UNCHANGED <<text, fairVars, jobVars, ragVars>>]_vars

(***************************************************************************)
(*                        UPLOAD REQUEST                                   *)
(* enhanced_api_server.process_lease_pdf for an uploaded PDF whose text    *)
(* was extracted, and the analysis its background thread runs on that      *)
(* text.  Every NHTSA request is recorded with the function that sent it.  *)
(***************************************************************************)
\* request.args.get(name, default).lower() == 'true'; NULL: not given
ArgValues == {NULL, "true", "False"}
ArgLower(v) == IF v = "True" THEN "true" ELSE IF v = "False" THEN "false" ELSE v
Flag(v, default) == ArgLower(IF v = NULL THEN default ELSE v) = "true"
FastMode(args) == Flag(args.fast_mode, "false")
UseNhtsa(args) == Flag(args.use_nhtsa, IF FastMode(args) THEN "false" ELSE "true")

UploadDecodes ==
    {Response("Timeout", 0, "", "", <<>>),
     Answer("object", "list", <<DecodedRow("HONDA", "Accord", "2003", "Sedan/Saloon")>>)}
UploadRecalls ==
    {Response("Timeout", 0, "", "", <<>>),
     Answer("object", "list", <<[NHTSACampaignNumber |-> "20V314000"]>>)}

\* the requests a call r of function `by` has sent, with their answers
Calls(by, r, dresp, rresp) ==
    (IF r.decode_called
     THEN <<[by |-> by, endpoint |-> "DecodeVinValues", answer |-> dresp]>> ELSE <<>>)
    \o (IF r.recall_called
        THEN <<[by |-> by, endpoint |-> "recallsByVehicle", answer |-> rresp]>> ELSE <<>>)

\* vehicle_info = extract_vehicle_info(text) inside analyze_contract_fairness
LookedUp(r) ==
    IF r.raised THEN LookupRaised
    ELSE [truthy |-> TRUE, raised |-> FALSE,
          recalls |-> IF r.value["recalls"] = NoneObj THEN <<>> ELSE r.value["recalls"]]

\* texts with and without a VIN, and with and without 'Make', 'Model' and
\* 'Year' labels; the lease terms have no part in the lookups
UploadTexts ==
    { LeaseText(body, make, <<"Civic", "Civic">>, <<"2021", "2021">>, "none", FALSE) :
        body \in {<<>>, V1}, make \in {<<NULL, NULL>>, <<"Honda", "Honda">>} }

UploadInit ==
    /\ text \in UploadTexts
    /\ request_args \in [fast_mode : ArgValues, use_nhtsa : ArgValues]
    /\ nhtsa_calls = <<>>
    /\ use_nhtsa = FALSE /\ nhtsa = NULL
    /\ use_llm = FALSE /\ llm = <<>>
    /\ out = NotReturned /\ vinfo = NotReturned /\ advice = NotReturned
    /\ JOBS = <<>> /\ CHATS = <<>> /\ leases = <<>> /\ bg = <<>>
    /\ poll = NoPoll /\ polled = NoResponse /\ client = NoClient
    /\ users = <<>> /\ session = <<>> /\ response = NULL /\ chat = NULL
    /\ FairIdle /\ RagIdle

\* process_lease_pdf, lines 507-617.  Line 519 calls extract_vehicle_info
\* with its default use_nhtsa=True; what it raises ends the request with
\* 500 before a job is created.  Line 522 passes the parsed use_nhtsa.
UploadLeasePdf ==
    /\ JOBS = <<>> /\ vinfo = NotReturned
    /\ \E nh \in {UseNhtsa(request_args)} :
       \E d1 \in UploadDecodes \cup {NotCalled}, r1 \in UploadRecalls \cup {NotCalled} :
       \E vi \in {extract_vehicle_info(text, TRUE, d1, r1)} :
         /\ Answers(vi, d1, r1)
         /\ vinfo' = [returned |-> TRUE, raised |-> vi.raised, value |-> vi.value]
         /\ use_nhtsa' = nh
         /\ IF vi.raised
            THEN /\ nhtsa_calls' = nhtsa_calls \o Calls("extract_vehicle_info", vi, d1, r1)
                 /\ UNCHANGED <<out, JOBS, CHATS, leases, bg>>
            ELSE \E d2 \in UploadDecodes \cup {NotCalled}, r2 \in UploadRecalls \cup {NotCalled} :
                 \E fe \in {extract_full_lease_fields(text, nh, d2, r2, FALSE, <<>>)} :
                 \E user \in UserIds \cup {NoUser}, outcome \in SaveOutcomes :
                   /\ Answers(fe, d2, r2)
                   /\ out' = [returned |-> TRUE, raised |-> fe.raised, value |-> fe.value]
                   /\ nhtsa_calls' = nhtsa_calls
                                       \o Calls("extract_vehicle_info", vi, d1, r1)
                                       \o Calls("extract_full_lease_fields", fe, d2, r2)
                   /\ StartJob(user, outcome)
    /\ UNCHANGED <<text, nhtsa, use_llm, llm, advice, request_args,
                   poll, polled, client, webVars, fairVars, ragVars>>

\* _background_work lines 578-582 on the request's text: the use_nhtsa flag
\* the thread is given is not used.  get_negotiation_advice extracts with
\* use_nhtsa=True, and tokenization_style_analysis calls
\* analyze_contract_fairness(text), which looks the vehicle up itself.
BgAnalysisAt(j) ==
    /\ bg[j] = "compute"
    /\ \E d3 \in UploadDecodes \cup {NotCalled}, r3 \in UploadRecalls \cup {NotCalled} :
       \E negotiation \in {get_negotiation_advice(text, d3, r3)} :
       \E d4 \in UploadDecodes \cup {NotCalled}, r4 \in UploadRecalls \cup {NotCalled} :
       \E looked_up \in {extract_vehicle_info(text, TRUE, d4, r4)} :
       \E captures \in {FairCaptures(text)} :
         /\ Answers(negotiation, d3, r3) /\ Answers(looked_up, d4, r4)
         /\ advice' = negotiation
         /\ fairness' = analyze_contract_fairness(captures, NoVehicleInfo,
                                                  LookedUp(looked_up))
         /\ nhtsa_calls' = nhtsa_calls
                             \o Calls("get_negotiation_advice", negotiation, d3, r3)
                             \o Calls("analyze_contract_fairness", looked_up, d4, r4)
    /\ bg' = [bg EXCEPT ![j] = "write_result"]
    /\ UNCHANGED <<JOBS, CHATS, leases, poll, polled, client, webVars, ftext, vehicle_info, ragVars,
                   text, use_nhtsa, nhtsa, use_llm, llm, out, vinfo, request_args>>

BgAnalysis == \E j \in DOMAIN JOBS : BgAnalysisAt(j)

UploadNext ==
    \/ UploadLeasePdf
    \/ BgAnalysis
    \/ BgWriteResult
    \/ BgWriteContract
    \/ BgWriteStatus
    \/ BgDbUpdate
    \/ BgExceptResult
    \/ BgExceptStatus

SpecUpload == UploadInit /\ [][UploadNext]_vars

\* C19: a process_lease_pdf request with fast_mode=true and no use_nhtsa
\* parameter sends no NHTSA request (VIN decode or recall lookup), neither
\* in the request handler nor in the background job it starts.
C19_FastModeSkipsNhtsa ==
    (FastMode(request_args) /\ request_args.use_nhtsa = NULL) => nhtsa_calls = <<>>

(***************************************************************************)
(*                         ACCOUNTS AND LEASES                             *)
(* enhanced_api_server.py: register, login, logout, my_leases,             *)
(* compare_leases and the lease row process_lease_pdf saves.  A browser    *)
(* holds the Flask session cookie and the JWT of its last login; a lease   *)
(* row's position in the table stands for its uuid4 lease_id.              *)
(***************************************************************************)
Browsers == {1, 2}
Usernames == {"alice", "bob"}
Passwords == {"secret", "guess"}

NoSession == [user_id |-> NoUser, token |-> NoUser]
NoAuthResponse == [route |-> NULL, code |-> 0, user |-> NoUser, leases |-> <<>>]

\* generate_password_hash / check_password_hash
PasswordHash(password) == <<"hash", password>>
CheckPasswordHash(hash, password) == hash = PasswordHash(password)

\* db.query(User).filter(User.username == username).first(): the row's id,
\* NoUser for no row.
UserNamed(username) ==
    IF \E i \in DOMAIN users : users[i].username = username
    THEN CHOOSE i \in DOMAIN users : users[i].username = username
    ELSE NoUser

\* get_user_from_request: a Bearer token decides alone (an expired or
\* invalid token gives None, with no fallback); without the header the
\* Flask session is used.
get_user_from_request(b, bearer, valid) ==
    IF bearer THEN (IF valid THEN session[b].token ELSE NoUser)
    ELSE session[b].user_id

\* require_login: 'user_id' in session
require_login(b) == session[b].user_id # NoUser

\* What a browser can send: a Bearer header only with a token it was given.
Credentials(b) ==
    { c \in [bearer : BOOLEAN, valid : BOOLEAN] :
        /\ c.bearer => session[b].token # NoUser
        /\ ~c.bearer => c.valid }

Reverse(seq) == [i \in 1..Len(seq) |-> seq[Len(seq) + 1 - i]]

\* payload of one row in the answer of my_leases / compare_leases
LeaseOut(i) ==
    [lease_id |-> i,
     payload |-> leases[i].extracted_json \cup {"lease_id", "file_name", "uploaded_at"}]

RowIds(keep(_)) == SelectSeq([i \in 1..Len(leases) |-> i], keep)

AuthInit ==
    /\ JOBS = <<>> /\ CHATS = <<>> /\ leases = <<>> /\ bg = <<>>
    /\ poll = NoPoll /\ polled = NoResponse /\ client = NoClient
    /\ users = <<>>
    /\ session = [b \in Browsers |-> NoSession]
    /\ response = NoAuthResponse /\ chat = NULL
    /\ FairIdle /\ RagIdle /\ ExtIdle

authFrame == <<JOBS, CHATS, leases, bg, poll, polled, client, chat, fairVars, ragVars, extVars>>

Register ==
    \E username \in Usernames \cup {NULL}, password \in Passwords :
      /\ IF username = NULL \/ UserNamed(username) # NoUser
         THEN /\ response' = [NoAuthResponse EXCEPT !.route = "register", !.code = 400]
              /\ UNCHANGED users
         ELSE /\ users' = Append(users, [username |-> username,
                                         password_hash |-> PasswordHash(password)])
              /\ response' = [NoAuthResponse EXCEPT !.route = "register", !.code = 200]
      /\ UNCHANGED <<session, authFrame>>

Login ==
    \E b \in Browsers, username \in Usernames, password \in Passwords :
      LET user == UserNamed(username)
      IN  /\ IF user = NoUser \/ ~CheckPasswordHash(users[user].password_hash, password)
             THEN /\ response' = [NoAuthResponse EXCEPT !.route = "login", !.code = 401]
                  /\ UNCHANGED session
             ELSE /\ session' = [session EXCEPT ![b] = [user_id |-> user, token |-> user]]
                  /\ response' = [route |-> "login", code |-> 200, user |-> user,
                                  leases |-> <<>>]
          /\ UNCHANGED <<users, authFrame>>

Logout ==
    \E b \in Browsers :
      /\ session' = [session EXCEPT ![b].user_id = NoUser]
      /\ response' = [NoAuthResponse EXCEPT !.route = "logout", !.code = 200]
      /\ UNCHANGED <<users, authFrame>>

\* process_lease_pdf, lines 540-575: the row's user_id is the requesting
\* user's id, or stays NULL without one.
UploadAs ==
    \E b \in Browsers, outcome \in SaveOutcomes :
      \E c \in Credentials(b) :
        LET user == get_user_from_request(b, c.bearer, c.valid)
        IN  /\ StartJob(user, outcome)
            /\ response' = [route |-> "process_lease_pdf",
                            code |-> IF Escaped(outcome) THEN 500 ELSE 200,
                            user |-> user, leases |-> <<>>]
            /\ UNCHANGED <<users, session, poll, polled, client, chat, fairVars, ragVars, extVars>>

my_leases ==
    \E b \in Browsers :
      \E c \in Credentials(b) :
        LET user == get_user_from_request(b, c.bearer, c.valid)
            rows == Reverse(RowIds(LAMBDA i : leases[i].user_id = user))
        IN  /\ response' =
                 IF user = NoUser
                 THEN [NoAuthResponse EXCEPT !.route = "my_leases", !.code = 401]
                 ELSE [route |-> "my_leases", code |-> 200, user |-> user,
                       leases |-> [k \in 1..Len(rows) |-> LeaseOut(rows[k])]]
            /\ UNCHANGED <<users, session, authFrame>>

compare_leases ==
    \E b \in Browsers, lease_ids \in SUBSET (1..MaxJobs) :
      LET rows == RowIds(LAMBDA i : i \in lease_ids)
      IN  /\ response' =
               IF ~require_login(b)
               THEN [NoAuthResponse EXCEPT !.route = "compare_leases", !.code = 401]
               ELSE [route |-> "compare_leases", code |-> 200,
                     user |-> session[b].user_id,
                     leases |-> [k \in 1..Len(rows) |-> LeaseOut(rows[k])]]
          /\ UNCHANGED <<users, session, authFrame>>

AuthNext ==
    \/ Register
    \/ Login
    \/ Logout
    \/ UploadAs
    \/ my_leases
    \/ compare_leases

SpecAuth == AuthInit /\ [][AuthNext]_vars

\* Every lease of the response is a row of the user the response went to.
OnlyOwnLeases ==
    \A k \in DOMAIN response.leases :
        leases[response.leases[k].lease_id].user_id = response.user

\* C28: no answer of my_leases or compare_leases to a user holds a lease
\* whose user_id is another user's or NULL, whatever lease_ids are sent.
C28_OnlyOwnLeasesRead ==
    (response.route \in {"my_leases", "compare_leases"} /\ response.code = 200)
        => OnlyOwnLeases

\* C28 for my_leases alone.
C28_MyLeasesOnlyOwn ==
    (response.route = "my_leases" /\ response.code = 200) => OnlyOwnLeases

\* my_leases answered a user who owns a lease while another user's lease
\* is stored.
C28_MyLeasesReached ==
    /\ response.route = "my_leases" /\ response.code = 200
    /\ Len(response.leases) = 1 /\ Len(leases) = 2

(***************************************************************************)
(*                                CHAT                                     *)
(* enhanced_api_server.py: chat_for_job, _call_chat_llm and                *)
(* build_local_assistant_response, next to the job's background thread.    *)
(***************************************************************************)
MaxExchanges == 6
MaxChatJobs == 1
RECENT_MESSAGES == 10

UserMessages == {"", "monthly payment"}
\* _call_chat_llm: no MISTRAL_API_KEY (nothing is sent), a request that
\* fails or answers no text, a request answered with text.
ChatLlmAnswers == {"no_key", "failed", "answered"}

NoChat == [job |-> 0, code |-> 0, prompt |-> <<>>, sent |-> FALSE,
           assistant_type |-> NULL, reply |-> NULL]

RoleLabel(role) ==
    CASE role = "system" -> "SYSTEM" [] role = "user" -> "USER" [] OTHER -> "ASSISTANT"

\* CHATS[job_id][-10:]
Recent(messages) ==
    SubSeq(messages, Max(1, Len(messages) - RECENT_MESSAGES + 1), Len(messages))
RecentAll(messages) == messages

\* prompt_text: one labelled part per recent message
PromptText(messages) ==
    [i \in 1..Len(Recent(messages)) |->
        <<RoleLabel(Recent(messages)[i].role), Recent(messages)[i].content>>]

\* the except branch of build_local_assistant_response
GenericLocalReply == [summary |-> FALSE, vehicle |-> FALSE, topic |-> "error"]

\* the branch of the reply the message selects
Topic(user_message) == IF user_message = "monthly payment" THEN "monthly" ELSE "general"

\* build_local_assistant_response: extracted = job['extracted_contract'];
\* the summary and vehicle sections appear when extracted holds a
\* full_extraction / vehicle_info; the monthly, mileage and deposit answers
\* call full_extraction.get(...), which raises when extracted has no
\* full_extraction and ends in the except branch.
build_local_assistant_response(job_id, user_message) ==
    LET extracted == JOBS[job_id].extracted_contract
    IN  IF Topic(user_message) = "monthly" /\ "full_extraction" \notin extracted
        THEN GenericLocalReply
        ELSE [summary |-> "full_extraction" \in extracted,
              vehicle |-> "vehicle_info" \in extracted,
              topic |-> Topic(user_message)]

ChatInit ==
    /\ JOBS = <<>> /\ CHATS = <<>> /\ leases = <<>> /\ bg = <<>>
    /\ poll = NoPoll /\ polled = NoResponse /\ client = NoClient
    /\ users = <<>> /\ session = <<>> /\ response = NULL
    /\ chat = NoChat
    /\ FairIdle /\ RagIdle /\ ExtIdle

\* process_lease_pdf, for at most MaxChatJobs jobs
ChatUpload ==
    /\ Len(JOBS) < MaxChatJobs
    /\ \E user \in UserIds \cup {NoUser}, outcome \in SaveOutcomes :
         /\ StartJob(user, outcome)
         /\ UNCHANGED <<poll, polled, client, webVars, fairVars, ragVars, extVars>>

chat_for_job ==
    \E job_id \in JobIds, user_msg \in UserMessages, answer \in ChatLlmAnswers :
      /\ IF job_id \notin DOMAIN CHATS
         THEN /\ chat' = [NoChat EXCEPT !.job = job_id, !.code = 404]
              /\ UNCHANGED CHATS
         ELSE IF user_msg = ""
         THEN /\ chat' = [NoChat EXCEPT !.job = job_id, !.code = 400]
              /\ UNCHANGED CHATS
         ELSE /\ Len(CHATS[job_id]) < 2 * MaxExchanges + 1
              /\ LET asked == Append(CHATS[job_id], [role |-> "user", content |-> user_msg])
                     reply == IF answer = "answered" THEN [text |-> "reply"]
                              ELSE build_local_assistant_response(job_id, user_msg)
                 IN  /\ chat' = [job |-> job_id, code |-> 200,
                                 prompt |-> PromptText(asked),
                                 sent |-> answer # "no_key",
                                 assistant_type |-> IF answer = "answered" THEN "grok"
                                                    ELSE "local_fallback",
                                 reply |-> reply]
                     /\ CHATS' = [CHATS EXCEPT ![job_id] =
                                     Append(asked, [role |-> "assistant", content |-> reply])]
      /\ UNCHANGED <<JOBS, leases, bg, poll, polled, client, users, session, response,
                     fairVars, ragVars, extVars>>

ChatNext ==
    \/ ChatUpload
    \/ BgCompute
    \/ BgWriteResult
    \/ BgWriteContract
    \/ BgWriteStatus
    \/ BgDbUpdate
    \/ BgExceptResult
    \/ BgExceptStatus
    \/ chat_for_job

SpecChat == ChatInit /\ [][ChatNext]_vars

HasSystemMessage(prompt) ==
    \E i \in DOMAIN prompt : prompt[i][1] = "SYSTEM" /\ prompt[i][2] = SystemPrompt

\* C24: every prompt sent to the chat provider holds the job's system
\* message with the lease extraction data, after any number of exchanges.
C24_PromptHasSystemMessage ==
    (chat.code = 200 /\ chat.sent) => HasSystemMessage(chat.prompt)

\* C24 for the first five requests of a job (at most four earlier
\* exchanges).
C24_FirstFiveRequests ==
    (chat.code = 200 /\ chat.sent /\ Len(CHATS[chat.job]) <= RECENT_MESSAGES + 1)
        => HasSystemMessage(chat.prompt)

\* A prompt with the system message and four earlier exchanges was sent.
C24_FifthRequestReached ==
    /\ chat.code = 200 /\ chat.sent /\ Len(CHATS[chat.job]) = RECENT_MESSAGES + 1
    /\ HasSystemMessage(chat.prompt)

\* C30: a job's extracted_contract keeps the keys text, full_extraction,
\* datapoints and vehicle_info for the whole life of the job.
C30_ContractKeysKept ==
    \A j \in DOMAIN JOBS : InitialContract \subseteq JOBS[j].extracted_contract

\* C30 up to line 588 of the background thread.
C30_KeysKeptUntilMerge ==
    \A j \in DOMAIN JOBS :
        bg[j] \in {"not_started", "compute", "write_result", "write_contract"}
            => JOBS[j].extracted_contract = InitialContract

\* The local assistant answered from the lease data while the thread had
\* not yet replaced extracted_contract.
C30_AnsweredFromData ==
    /\ chat.code = 200 /\ chat.assistant_type = "local_fallback"
    /\ chat.reply = [summary |-> TRUE, vehicle |-> TRUE, topic |-> "monthly"]

\* C30, the assistant's side: the local assistant's answer to a question
\* about the monthly payment always shows the lease summary.
C30_AssistantReadsSameData ==
    (chat.code = 200 /\ chat.assistant_type = "local_fallback")
        => (chat.reply.summary /\ chat.reply.vehicle)

====
